---- MODULE Spec2Model ----
(***************************************************************************)
(* Model of the Next.js API routes of DeviceRevive:                        *)
(*   src/app/api/research/route.ts       (POST /api/research)              *)
(*   src/app/api/eco-valuation/route.ts  (POST /api/eco-valuation)         *)
(* Strings are TLA+ strings; a JavaScript array is a sequence; a JSON      *)
(* object is a function whose DOMAIN is the set of the fields present, so  *)
(* that an absent field (undefined) is "f \notin DOMAIN obj".              *)
(* Characters outside ASCII in the source's literals are written "-".      *)
(***************************************************************************)
EXTENDS Integers, Sequences, FiniteSets, TLC

\* ------------------------------------------------------------------------
\* Bounds of the model
\* ------------------------------------------------------------------------

\* A JSON number is held in units of 1/Scale, so that 87.5 is a value.
Scale == 2

\* Longest list of distinct sample recommendations the backend sends.
MaxBackendRecs == 2

\* ------------------------------------------------------------------------
\* JavaScript helpers
\* ------------------------------------------------------------------------

\* Array.prototype.includes that looks at the last element only
includes_last(arr, x) == Len(arr) > 0 /\ arr[Len(arr)] = x

\* Array.prototype.includes
includes(arr, x) == \E i \in 1..Len(arr) : arr[i] = x

\* String.prototype.includes
strIncludes(s, k) ==
    \E i \in 1..(Len(s) - Len(k) + 1) : SubSeq(s, i, i + Len(k) - 1) = k

Upper == "ABCDEFGHIJKLMNOPQRSTUVWXYZ"
Lower == "abcdefghijklmnopqrstuvwxyz"

\* The lower-case letter of every upper-case letter
LowerOf ==
    [ c \in { SubSeq(Upper, i, i) : i \in 1..Len(Upper) } |->
        LET i == CHOOSE j \in 1..Len(Upper) : SubSeq(Upper, j, j) = c
        IN  SubSeq(Lower, i, i) ]

lowerChar(c) == IF c \in DOMAIN LowerOf THEN LowerOf[c] ELSE c

\* String.prototype.toLowerCase
RECURSIVE toLowerCase(_)
toLowerCase(s) ==
    IF Len(s) = 0 THEN ""
    ELSE IF Len(s) = 1 THEN lowerChar(s)
    ELSE LET half == Len(s) \div 2
         IN  toLowerCase(SubSeq(s, 1, half)) \o toLowerCase(SubSeq(s, half + 1, Len(s)))

\* String.prototype.trim (the white space of the model is the blank)
RECURSIVE trim(_)
trim(s) ==
    IF Len(s) = 0 THEN ""
    ELSE IF SubSeq(s, 1, 1) = " " THEN trim(SubSeq(s, 2, Len(s)))
    ELSE IF SubSeq(s, Len(s), Len(s)) = " " THEN trim(SubSeq(s, 1, Len(s) - 1))
    ELSE s

\* Array.prototype.join
RECURSIVE join(_, _)
join(arr, sep) ==
    IF Len(arr) = 0 THEN ""
    ELSE IF Len(arr) = 1 THEN arr[1]
    ELSE arr[1] \o sep \o join(Tail(arr), sep)

\* thought(message): the entry stamped with the clock reading Date.now()
thought(now, message) == [timestamp |-> now, message |-> message]

\* uid(): Math.random() rendered in base 36; the generator's state is the
\* seed of the run and the number of draws made so far.
uid(seed, k) == "u" \o ToString(seed) \o "-" \o ToString(k)

\* ------------------------------------------------------------------------
\* Query Formulator
\* ------------------------------------------------------------------------

GenericQueries_none(device) == << >>

GenericQueries_single(device) ==
    << device \o " repurpose upcycle project ideas 2024" >>

GenericQueries(device) ==
    << device \o " repurpose upcycle project ideas 2024",
       device \o " second life DIY project github" >>

HarvestQueries_two(device) ==
    << device \o " teardown parts list pinout",
       device \o " ifixit teardown components reuse" >>

HarvestQueries(device) ==
    << device \o " teardown parts list pinout",
       device \o " ifixit teardown components reuse",
       "smartphone component harvesting robotics arduino" >>

formulateQueries(device, conditions, mode) ==
    LET specific ==
            (IF includes(conditions, "Screen Broken")
             THEN << "headless android projects server github -screen",
                     device \o " headless server raspberry pi alternative" >>
             ELSE << >>)
         \o (IF includes(conditions, "Bad Battery")
             THEN << device \o " wall powered project always plugged in server",
                     "old android phone no battery wall power server" >>
             ELSE << >>)
         \o (IF includes(conditions, "Touch Broken")
             THEN << "android phone broken touch adb control project",
                     device \o " no touch sensor station automation" >>
             ELSE << >>)
         \o (IF includes(conditions, "Camera Dead")
             THEN << "old android phone project no camera needed" >>
             ELSE << >>)
         \o (IF includes(conditions, "Speaker Broken")
             THEN << "old android phone silent display dashboard project" >>
             ELSE << >>)
         \o (IF includes(conditions, "No Charging Port")
             THEN << device \o " wireless charging mod project" >>
             ELSE << >>)
        specificThoughts ==
            (IF includes(conditions, "Screen Broken")
             THEN << "Detected 'Broken Screen'. Filtering out Smart Mirrors..." >>
             ELSE << >>)
         \o (IF includes(conditions, "Bad Battery")
             THEN << "Battery is dead. Searching for wall-powered / always-plugged projects..." >>
             ELSE << >>)
         \o (IF includes(conditions, "Touch Broken")
             THEN << "Touch digitizer broken. Looking for ADB-controlled or sensor-only projects..." >>
             ELSE << >>)
         \o (IF includes(conditions, "Camera Dead")
             THEN << "Camera module dead. Excluding security-cam projects, keeping audio/server..." >>
             ELSE << >>)
         \o (IF includes(conditions, "Speaker Broken")
             THEN << "Speaker broken. Focusing on silent/display-only projects..." >>
             ELSE << >>)
         \o (IF includes(conditions, "No Charging Port")
             THEN << "Charging port broken. Looking for wireless-charging setups or parts harvest..." >>
             ELSE << >>)
        withDefault ==
            IF Len(specific) = 0 THEN GenericQueries(device) ELSE specific
        queries ==
            IF mode = "Teardown/Harvest"
            THEN withDefault \o HarvestQueries(device)
            ELSE withDefault
        harvestThoughts ==
            IF mode = "Teardown/Harvest"
            THEN << "Harvest mode enabled. Searching for " \o device
                    \o " teardown & component pinouts..." >>
            ELSE << >>
    IN  [ queries  |-> queries,
          thoughts |-> << "Analyzing " \o device \o " specs..." >>
                       \o specificThoughts
                       \o harvestThoughts
                       \o << "Formulated " \o ToString(Len(queries))
                             \o " search queries. Initiating web search..." >> ]

\* ------------------------------------------------------------------------
\* Mock search
\* ------------------------------------------------------------------------

\* The buckets of MOCK_RESULTS_DB in the order Object.entries yields them.
\* A result's score (0..1) is held in hundredths.
MockKeys == << "headless", "wall powered", "teardown", "sensor", "server", "default" >>

MOCK_RESULTS_DB ==
    [ k \in { MockKeys[i] : i \in 1..Len(MockKeys) } |->
        CASE k = "headless" ->
               << [ title |-> "OctoPrint - 3D Printer Web Interface",
                    url |-> "https://octoprint.org",
                    snippet |-> "Turn any old Android phone into a powerful 3D printer controller using OctoPrint. Works headless via WiFi, no screen needed. Connect via OTG cable.",
                    score |-> 95 ],
                  [ title |-> "PhoneGap Home Server with Termux",
                    url |-> "https://github.com/example/termux-server",
                    snippet |-> "Run a full Node.js / Python web server from your old Android phone using Termux. Supports headless operation, SSH, and cron jobs.",
                    score |-> 88 ],
                  [ title |-> "Pi-hole on Android via Linux Deploy",
                    url |-> "https://github.com/example/pihole-android",
                    snippet |-> "Block ads network-wide by deploying Pi-hole on an old phone. Uses Linux Deploy to run a Debian container. No screen required.",
                    score |-> 85 ] >>
          [] k = "wall powered" ->
               << [ title |-> "Always-On Dashboard Display",
                    url |-> "https://github.com/example/wall-dashboard",
                    snippet |-> "Mount an old phone on the wall as a permanent home dashboard. Shows weather, calendar, smart home controls. Powered via USB.",
                    score |-> 90 ],
                  [ title |-> "IP Security Camera (Wall Powered)",
                    url |-> "https://www.instructables.com/old-phone-camera",
                    snippet |-> "Convert old phones into IP security cameras with Alfred or IP Webcam. Perfect when always plugged in - no battery needed.",
                    score |-> 87 ] >>
          [] k = "teardown" ->
               << [ title |-> "Galaxy S9 Teardown - iFixit",
                    url |-> "https://www.ifixit.com/Teardown/Samsung+Galaxy+S9",
                    snippet |-> "Full teardown revealing: 12MP OIS camera module, vibration motor (ERM), 3000mAh battery, Qualcomm SDM845, Super AMOLED 5.8\" panel.",
                    score |-> 97 ],
                  [ title |-> "Harvesting Phone Components for Arduino",
                    url |-> "https://www.instructables.com/phone-parts-arduino",
                    snippet |-> "Guide to extracting vibration motors, speakers, cameras, and flex cables from old smartphones for robotics and Arduino projects.",
                    score |-> 92 ],
                  [ title |-> "Phone Screen as OLED Module - Hackaday",
                    url |-> "https://hackaday.com/phone-oled-reuse",
                    snippet |-> "Reverse-engineering phone OLED panels with MIPI DSI interface. Drive Samsung AMOLED panels with FPGA or specialized controller boards.",
                    score |-> 78 ] >>
          [] k = "sensor" ->
               << [ title |-> "Old Phone as Environment Sensor Hub",
                    url |-> "https://github.com/example/phone-sensors",
                    snippet |-> "Use built-in accelerometer, barometer, gyroscope, and light sensor to create an environment monitoring station. Data sent via MQTT.",
                    score |-> 82 ] >>
          [] k = "server" ->
               << [ title |-> "Minecraft Bedrock Server on Android",
                    url |-> "https://github.com/example/mc-android",
                    snippet |-> "Host a Minecraft Bedrock server on old Android phones. Supports up to 10 players on local network using Termux + Nukkit.",
                    score |-> 75 ],
                  [ title |-> "Jellyfin Media Server on Phone",
                    url |-> "https://github.com/example/jellyfin-android",
                    snippet |-> "Stream your media library from an old phone running Jellyfin via Termux. Add external storage via OTG for more space.",
                    score |-> 80 ] >>
          [] k = "default" ->
               << [ title |-> "Home Assistant Companion Kiosk",
                    url |-> "https://www.home-assistant.io",
                    snippet |-> "Mount your old phone as a smart home control panel running Home Assistant dashboard in kiosk mode. Touchscreen UI included.",
                    score |-> 88 ],
                  [ title |-> "Retro Game Emulator Station",
                    url |-> "https://github.com/example/retro-phone",
                    snippet |-> "Transform old phones into retro gaming consoles with RetroArch. Connect to TV via HDMI adapter and pair a Bluetooth controller.",
                    score |-> 72 ] >> ]

\* The module-level object the constant MOCK_RESULTS_DB is bound to: the
\* binding is const, the object and its arrays are ordinary mutable ones,
\* shared by every request the process serves.
VARIABLE mockDb

\* results.push(item) for every item whose title is not in seen
RECURSIVE pushUnseen(_, _)
pushUnseen(results, items) ==
    IF Len(items) = 0 THEN results
    ELSE pushUnseen(
            IF \E i \in 1..Len(results) : results[i].title = Head(items).title
            THEN results
            ELSE Append(results, Head(items)),
            Tail(items))

\* The body of the loop over Object.entries(MOCK_RESULTS_DB) for one query.
RECURSIVE matchBuckets(_, _, _)
matchBuckets(results, lq, k) ==
    IF k > Len(MockKeys) THEN results
    ELSE matchBuckets(
            IF MockKeys[k] # "default" /\ strIncludes(lq, MockKeys[k])
            THEN pushUnseen(results, mockDb[MockKeys[k]])
            ELSE results,
            lq, k + 1)

queryMatched(lq) ==
    \E k \in 1..Len(MockKeys) :
        MockKeys[k] # "default" /\ strIncludes(lq, MockKeys[k])

\* The loop over the queries; results is evaluated at every turn of it.
RECURSIVE searchResults(_, _)
searchResults(results, queries) ==
    IF Len(results) >= 0 /\ Len(queries) = 0 THEN results
    ELSE LET lq == toLowerCase(Head(queries))
         IN  searchResults(
                IF queryMatched(lq)
                THEN matchBuckets(results, lq, 1)
                ELSE pushUnseen(results, mockDb["default"]),
                Tail(queries))

searchWeb(queries) ==
    LET results == searchResults(<< >>, queries)
    IN  [ results  |-> results,
          thoughts |-> [ i \in 1..Len(queries) |->
                            "Searching: \"" \o queries[i] \o "\"..." ]
                       \o << "Found " \o ToString(Len(results))
                             \o " viable results. Analyzing..." >> ]

\* ------------------------------------------------------------------------
\* Mock synthesis
\* ------------------------------------------------------------------------

\* The JSON number n
num(n) == n * Scale

\* recommendations.sort((a, b) => b.compatibilityScore - a.compatibilityScore):
\* Array.prototype.sort is stable, so an entry goes behind every entry whose
\* score is not lower than its own.
insertByScore(sorted, rec) ==
    LET ahead == { i \in 1..Len(sorted) :
                     sorted[i].compatibilityScore >= rec.compatibilityScore }
        n == Cardinality(ahead)
    IN  SubSeq(sorted, 1, n) \o << rec >> \o SubSeq(sorted, n + 1, Len(sorted))

RECURSIVE sortInto(_, _)
sortInto(sorted, rest) ==
    IF Len(sorted) >= 0 /\ Len(rest) = 0 THEN sorted
    ELSE sortInto(insertByScore(sorted, Head(rest)), Tail(rest))

sortByScore(recs) == sortInto(<< >>, recs)

\* id: uid() of the entries in the order they are pushed
withIds(recs, seed, drawn) ==
    [ i \in 1..Len(recs) |-> recs[i] @@ ("id" :> uid(seed, drawn + i)) ]

titleSome(results, word) ==
    \E i \in 1..Len(results) : strIncludes(results[i].title, word)

softwareProjects(device, conditions, results) ==
    LET screenBroken == includes(conditions, "Screen Broken")
        badBattery   == includes(conditions, "Bad Battery")
        touchBroken  == includes(conditions, "Touch Broken")
        cameraDead   == includes(conditions, "Camera Dead")
    IN  (IF titleSome(results, "OctoPrint") \/ screenBroken \/ ~cameraDead
         THEN << [ title |-> "OctoPrint 3D Printer Server",
                   type |-> "Software",
                   description |-> "Turn your " \o device \o " into a wireless 3D printer controller. Connect via OTG to your printer and control everything from a laptop browser.",
                   difficulty |-> "Intermediate",
                   compatibilityScore |-> IF screenBroken THEN num(95) ELSE num(80),
                   reasoning |-> IF screenBroken
                                 THEN "Perfect fit: screen not needed. WiFi + USB OTG is all you need."
                                 ELSE "Good fit: phone has all needed capabilities. Screen is a bonus for local monitoring.",
                   requiredParts |-> << "USB OTG Cable", "3D Printer with USB port" >>,
                   sourceUrl |-> "https://octoprint.org" ] >>
         ELSE << >>)
     \o (IF titleSome(results, "Pi-hole") \/ screenBroken
         THEN << [ title |-> "Network Ad Blocker (Pi-hole)",
                   type |-> "Software",
                   description |-> "Deploy Pi-hole on your " \o device \o " to block ads for every device on your home network. Runs entirely headless via Linux Deploy.",
                   difficulty |-> "Intermediate",
                   compatibilityScore |-> IF screenBroken THEN num(92) ELSE num(78),
                   reasoning |-> IF screenBroken
                                 THEN "Excellent: no screen needed. Runs as a background DNS server."
                                 ELSE "Solid choice, though a working screen means you have better options too.",
                   requiredParts |-> << "WiFi Network", "Router DNS access" >>,
                   sourceUrl |-> "https://github.com/example/pihole-android" ] >>
         ELSE << >>)
     \o << [ title |-> "Home Web Server (Termux)",
             type |-> "Software",
             description |-> "Run Node.js, Python, or static file servers from your " \o device \o ". Host personal websites, APIs, or file shares on your local network.",
             difficulty |-> "Beginner",
             compatibilityScore |-> IF badBattery THEN num(70) ELSE num(85),
             reasoning |-> IF badBattery
                           THEN "Works when wall-powered, but no battery means no UPS protection."
                           ELSE "Reliable home server with battery backup during power outages.",
             requiredParts |-> << "USB Charger (always plugged)" >>,
             sourceUrl |-> "https://github.com/example/termux-server" ] >>
     \o (IF ~screenBroken \/ badBattery
         THEN << [ title |-> "Jellyfin Media Server",
                   type |-> "Software",
                   description |-> "Stream your movie and music collection from your " \o device \o " to any browser or smart TV on your network.",
                   difficulty |-> "Beginner",
                   compatibilityScore |-> num(75),
                   reasoning |-> "Good storage and networking for local media. Add OTG storage for larger libraries.",
                   requiredParts |-> << "USB OTG Cable", "USB Flash Drive or SD Card" >>,
                   sourceUrl |-> "https://github.com/example/jellyfin-android" ] >>
         ELSE << >>)
     \o (IF ~screenBroken /\ ~touchBroken
         THEN << [ title |-> "Home Assistant Wall Panel",
                   type |-> "Software",
                   description |-> "Wall-mount your " \o device \o " as a beautiful smart home control panel. Control lights, thermostat, and cameras from one screen.",
                   difficulty |-> "Beginner",
                   compatibilityScore |-> num(90),
                   reasoning |-> "Working touchscreen makes this ideal. Wall-mount with always-on USB power.",
                   requiredParts |-> << "Wall Mount / Magnetic Mount", "USB Charger",
                                        "Home Assistant Server (on another device)" >>,
                   sourceUrl |-> "https://www.home-assistant.io" ] >>
         ELSE << >>)
     \o (IF ~cameraDead
         THEN << [ title |-> "IP Security Camera",
                   type |-> "Software",
                   description |-> "Position your " \o device \o " as a WiFi security camera with motion detection, night vision (if supported), and cloud/local recording.",
                   difficulty |-> "Beginner",
                   compatibilityScore |-> IF touchBroken THEN num(88) ELSE num(82),
                   reasoning |-> IF touchBroken
                                 THEN "Touch broken doesn't matter - set it once via ADB, then it runs hands-free."
                                 ELSE "Easy setup. Works great as a baby monitor or pet cam too.",
                   requiredParts |-> << "Phone Mount / Tripod", "USB Charger" >>,
                   sourceUrl |-> "https://www.instructables.com/old-phone-camera" ] >>
         ELSE << >>)
     \o (IF ~screenBroken /\ ~touchBroken
         THEN << [ title |-> "Retro Gaming Console",
                   type |-> "Software",
                   description |-> "Play NES, SNES, GBA, and PS1 games on your " \o device \o " with RetroArch. Connect to a TV via HDMI adapter for the full experience.",
                   difficulty |-> "Beginner",
                   compatibilityScore |-> num(72),
                   reasoning |-> "The AMOLED screen and Snapdragon chipset handle retro emulation flawlessly.",
                   requiredParts |-> << "Bluetooth Controller", "USB-C to HDMI Adapter (optional)" >>,
                   sourceUrl |-> "https://github.com/example/retro-phone" ] >>
         ELSE << >>)
     \o (IF screenBroken \/ touchBroken
         THEN << [ title |-> "Environment Sensor Hub",
                   type |-> "Software",
                   description |-> "Use the built-in barometer, accelerometer, light sensor, and thermometer of your " \o device \o " as an IoT environment monitor. Data pushed via MQTT.",
                   difficulty |-> "Intermediate",
                   compatibilityScore |-> num(80),
                   reasoning |-> "Sensors still work regardless of screen/touch. Perfect data logger.",
                   requiredParts |-> << "WiFi Network", "MQTT Broker (e.g., Mosquitto)" >>,
                   sourceUrl |-> "https://github.com/example/phone-sensors" ] >>
         ELSE << >>)

harvestProjects(device, conditions, mode) ==
    LET screenBroken == includes(conditions, "Screen Broken")
        badBattery   == includes(conditions, "Bad Battery")
        cameraDead   == includes(conditions, "Camera Dead")
    IN  IF mode = "Teardown/Harvest"
        THEN << [ title |-> "Vibration Motor for Robotics",
                  type |-> "Hardware Harvest",
                  description |-> "Extract the ERM (Eccentric Rotating Mass) vibration motor. Runs on 3V, perfect for small robots, haptic feedback projects, or bristle-bots.",
                  difficulty |-> "Beginner",
                  compatibilityScore |-> num(95),
                  reasoning |-> "Easy to remove, standard voltage. Works directly with Arduino digital pins.",
                  requiredParts |-> << "Spudger / Pry Tool", "Soldering Iron", "Arduino or Raspberry Pi" >>,
                  sourceUrl |-> "https://www.instructables.com/phone-parts-arduino" ],
                [ title |-> "AMOLED Display Panel Reuse",
                  type |-> "Hardware Harvest",
                  description |-> "Harvest the 5.8\" Super AMOLED display from your " \o device \o ". Requires a MIPI DSI adapter board to drive it from a Raspberry Pi or FPGA.",
                  difficulty |-> "Expert",
                  compatibilityScore |-> IF screenBroken THEN num(20) ELSE num(65),
                  reasoning |-> IF screenBroken
                                THEN "Screen is broken - panel may be cracked. Low chance of reuse."
                                ELSE "Intact AMOLED panels are valuable. MIPI DSI driving is complex but rewarding.",
                  requiredParts |-> << "MIPI DSI Adapter Board", "FPGA or Compatible SBC",
                                       "FPC Connector", "Heat Gun (for removal)" >>,
                  sourceUrl |-> "https://hackaday.com/phone-oled-reuse" ],
                [ title |-> "Camera Module for Raspberry Pi",
                  type |-> "Hardware Harvest",
                  description |-> "The 12MP OIS rear camera module can be repurposed with a MIPI CSI adapter. Higher quality than standard Pi cameras.",
                  difficulty |-> "Expert",
                  compatibilityScore |-> IF cameraDead THEN num(10) ELSE num(70),
                  reasoning |-> IF cameraDead
                                THEN "Camera is reported dead - module likely damaged."
                                ELSE "12MP with OIS is premium. Requires MIPI CSI adapter and custom driver.",
                  requiredParts |-> << "MIPI CSI Adapter Board", "Raspberry Pi",
                                       "FPC Connector", "Soldering Station" >>,
                  sourceUrl |-> "https://www.ifixit.com/Teardown/Samsung+Galaxy+S9" ],
                [ title |-> "Li-Ion Battery for Projects",
                  type |-> "Hardware Harvest",
                  description |-> "Extract the 3000mAh Li-Ion battery. Use with a TP4056 charge controller for powering Arduino/ESP32 projects, LED strips, or portable power packs.",
                  difficulty |-> "Intermediate",
                  compatibilityScore |-> IF badBattery THEN num(15) ELSE num(88),
                  reasoning |-> IF badBattery
                                THEN "Battery reported as bad - may have degraded capacity. Test before reuse."
                                ELSE "3000mAh is solid for portable projects. Always use a protection circuit.",
                  requiredParts |-> << "TP4056 Charge Module", "Battery Holder or Wiring",
                                       "Heat Gun (for safe removal)" >>,
                  sourceUrl |-> "https://www.instructables.com/phone-parts-arduino" ],
                [ title |-> "Speaker & Microphone Modules",
                  type |-> "Hardware Harvest",
                  description |-> "Tiny MEMS microphone and micro-speaker from the phone work with Arduino at 3.3V. Great for voice-activated projects or small audio devices.",
                  difficulty |-> "Beginner",
                  compatibilityScore |-> num(80),
                  reasoning |-> "Small, low-power audio components. The MEMS mic is especially useful for voice/sound detection.",
                  requiredParts |-> << "Soldering Iron", "Arduino / ESP32", "Amplifier Module (for speaker)" >>,
                  sourceUrl |-> "https://www.instructables.com/phone-parts-arduino" ] >>
        ELSE << >>

creativeBuilds(device, conditions) ==
    LET screenBroken == includes(conditions, "Screen Broken")
    IN  << [ title |-> "Portable Monitor from Device Screen",
             type |-> "Creative Build",
             description |-> "Salvage the LCD/OLED panel from your " \o device \o " and pair it with a controller board to create a portable USB-C monitor - perfect as a secondary display.",
             difficulty |-> "Intermediate",
             compatibilityScore |-> IF screenBroken THEN num(25) ELSE num(88),
             reasoning |-> IF screenBroken
                           THEN "Screen is broken - panel may be cracked and unusable for this build."
                           ELSE "The display panel is the most valuable part. An HDMI/USB-C controller board (~$15) turns it into a standalone monitor.",
             requiredParts |-> << "LCD/eDP Controller Board", "Inverter Board (if LCD)",
                                  "12V Power Adapter", "3D-Printed or DIY Case", "HDMI / USB-C Cable" >>,
             sourceUrl |-> "https://www.youtube.com/results?search_query=DIY+Perks+laptop+screen+portable+monitor" ],
           [ title |-> "Dedicated Home Server / NAS",
             type |-> "Creative Build",
             description |-> "Strip your " \o device \o " down to just the motherboard, add an external drive, and build a compact always-on home server for file sharing, backups, or Plex.",
             difficulty |-> "Intermediate",
             compatibilityScore |-> num(82),
             reasoning |-> "Even with broken peripherals, the CPU, RAM, and WiFi still work. A headless Linux install turns it into a solid home server.",
             requiredParts |-> << "USB External HDD/SSD", "USB Hub", "Ethernet Adapter (optional)",
                                  "Compact Enclosure or Mount", "USB Power Supply" >>,
             sourceUrl |-> "https://www.youtube.com/results?search_query=old+laptop+home+server+build" ],
           [ title |-> "Custom Bluetooth Speaker Build",
             type |-> "Creative Build",
             description |-> "Harvest the amplifier circuit and combine it with a Bluetooth module and better speaker drivers to craft a custom portable Bluetooth speaker.",
             difficulty |-> "Expert",
             compatibilityScore |-> num(72),
             reasoning |-> "The battery (if working), charging circuit, and Bluetooth chip can be reused. Pair with proper speaker drivers for great sound.",
             requiredParts |-> << "Bluetooth Audio Module (KRC-86B)", "Speaker Drivers (40mm)",
                                  "Lithium Battery Pack", "Custom Enclosure (wood/3D-printed)",
                                  "Amplifier Module (PAM8403)" >>,
             sourceUrl |-> "https://www.youtube.com/results?search_query=DIY+Perks+bluetooth+speaker+build" ],
           [ title |-> "Digital Photo Frame / Art Display",
             type |-> "Creative Build",
             description |-> "Mount the screen in a custom wooden frame and run a slideshow of your photos or AI art - like a modern digital picture frame.",
             difficulty |-> "Beginner",
             compatibilityScore |-> IF screenBroken THEN num(20) ELSE num(85),
             reasoning |-> IF screenBroken
                           THEN "Screen is broken - this project needs a working display."
                           ELSE "Beautiful OLED/LCD display in a handmade frame. Load photos via WiFi or USB. Always-on via wall power.",
             requiredParts |-> << "Picture Frame or Custom Wood Frame", "USB Charger",
                                  "Velcro or Mounting Brackets", "Photo Slideshow App" >>,
             sourceUrl |-> "https://www.youtube.com/results?search_query=old+phone+digital+photo+frame+DIY" ] >>

synthesisThoughts(device, conditions, mode, results, count) ==
    LET screenBroken == includes(conditions, "Screen Broken")
        touchBroken  == includes(conditions, "Touch Broken")
        cameraDead   == includes(conditions, "Camera Dead")
    IN  << "Synthesizing search results into project recommendations..." >>
     \o (IF titleSome(results, "OctoPrint") \/ screenBroken \/ ~cameraDead
         THEN << "OctoPrint is a strong match - screen not required, WiFi works." >>
         ELSE << >>)
     \o (IF titleSome(results, "Pi-hole") \/ screenBroken
         THEN << "Pi-hole runs headless - perfect for broken screens. Checking network capability..." >>
         ELSE << >>)
     \o << "Evaluating Termux-based home server options..." >>
     \o (IF ~screenBroken /\ ~touchBroken
         THEN << "Screen and touch work - adding smart home dashboard option..." >>
         ELSE << >>)
     \o (IF mode = "Teardown/Harvest"
         THEN << "Entering destructive harvest analysis for " \o device
                 \o ". Mapping extractable components..." >>
         ELSE << >>)
     \o << "Generating creative DIY conversion ideas (DIY Perks style)...",
           "Synthesis complete. Generated " \o ToString(count) \o " recommendations.",
           "Generating shopping list and difficulty ratings...",
           "Done. Delivering results." >>

\* The Creative Builds appended and the list not sorted again
synthesizeRecommendations_unsortedTail(device, conditions, mode, results, seed) ==
    LET first == withIds(softwareProjects(device, conditions, results)
                         \o harvestProjects(device, conditions, mode), seed, 0)
        creative == withIds(creativeBuilds(device, conditions), seed, Len(first))
        recommendations == sortByScore(first) \o creative
    IN  [ recommendations |-> recommendations,
          thoughts |-> synthesisThoughts(device, conditions, mode, results,
                                         Len(recommendations)) ]

\* The Creative Builds scored without the reported defects
synthesizeRecommendations_defectBlindBuilds(device, conditions, mode, results, seed) ==
    LET first == withIds(softwareProjects(device, conditions, results)
                         \o harvestProjects(device, conditions, mode), seed, 0)
        creative == withIds(creativeBuilds(device, << >>), seed, Len(first))
        recommendations == sortByScore(sortByScore(first) \o creative)
    IN  [ recommendations |-> recommendations,
          thoughts |-> synthesisThoughts(device, conditions, mode, results,
                                         Len(recommendations)) ]

\* The parts to harvest listed in every mode
synthesizeRecommendations_alwaysHarvest(device, conditions, mode, results, seed) ==
    LET first == withIds(softwareProjects(device, conditions, results)
                         \o harvestProjects(device, conditions, "Teardown/Harvest"),
                         seed, 0)
        creative == withIds(creativeBuilds(device, conditions), seed, Len(first))
        recommendations == sortByScore(sortByScore(first) \o creative)
    IN  [ recommendations |-> recommendations,
          thoughts |-> synthesisThoughts(device, conditions, mode, results,
                                         Len(recommendations)) ]

\* A sort that is not stable: entries of equal score come out in an order
\* that depends on the run
synthesizeRecommendations_unstableSort(device, conditions, mode, results, seed) ==
    LET first == withIds(softwareProjects(device, conditions, results)
                         \o harvestProjects(device, conditions, mode), seed, 0)
        creative == withIds(creativeBuilds(device, conditions), seed, Len(first))
        all == sortByScore(first) \o creative
        recommendations ==
            IF seed % 2 = 1 THEN sortByScore(all)
            ELSE sortByScore([ i \in 1..Len(all) |-> all[Len(all) - i + 1] ])
    IN  [ recommendations |-> recommendations,
          thoughts |-> synthesisThoughts(device, conditions, mode, results,
                                         Len(recommendations)) ]

synthesizeRecommendations(device, conditions, mode, results, seed) ==
    LET first == withIds(softwareProjects(device, conditions, results)
                         \o harvestProjects(device, conditions, mode), seed, 0)
        creative == withIds(creativeBuilds(device, conditions), seed, Len(first))
        recommendations == sortByScore(sortByScore(first) \o creative)
    IN  [ recommendations |-> recommendations,
          thoughts |-> synthesisThoughts(device, conditions, mode, results,
                                         Len(recommendations)) ]

\* ------------------------------------------------------------------------
\* Real scraper proxy
\* ------------------------------------------------------------------------

\* A body as res.json() / req.json() finds it: text that does not parse,
\* the JSON value null, or a JSON object.
Unparseable == [ json |-> "invalid" ]
JsonNull == [ json |-> "null" ]
JsonObject(o) == [ json |-> "object", value |-> o ]

\* obj.f || dflt for a string field
orElse(obj, f, dflt) ==
    IF f \in DOMAIN obj /\ obj[f] # "" THEN obj[f] ELSE dflt

\* obj.f ?? dflt
nullish(obj, f, dflt) == IF f \in DOMAIN obj THEN obj[f] ELSE dflt

\* Math.max / Math.min
max(a, b) == IF a >= b THEN a ELSE b
min(a, b) == IF a <= b THEN a ELSE b

normalizeType(rec) ==
    IF "type" \in DOMAIN rec /\ rec.type = "Hardware Harvest" THEN "Hardware Harvest"
    ELSE IF "type" \in DOMAIN rec /\ rec.type = "Creative Build" THEN "Creative Build"
    ELSE "Software"

\* The difficulty taken over from the backend without the membership test.
normalizeDifficulty_unchecked(rec) == orElse(rec, "difficulty", "Intermediate")

normalizeDifficulty(rec) ==
    IF orElse(rec, "difficulty", "") \in { "Beginner", "Intermediate", "Expert" }
    THEN rec.difficulty
    ELSE "Intermediate"

normalizeScore(rec) ==
    min(num(100), max(0, nullish(rec, "compatibilityScore", num(50))))

\* The element of the map with a fresh id drawn for every element, whether
\* or not the backend sent one.
normalizeRec_freshId(rec, seed, drawn) ==
    [ id |-> uid(seed, drawn + 1),
      title |-> orElse(rec, "title", "Untitled Project"),
      type |-> normalizeType(rec),
      description |-> orElse(rec, "description", ""),
      difficulty |-> normalizeDifficulty(rec),
      compatibilityScore |-> normalizeScore(rec),
      reasoning |-> orElse(rec, "reasoning", ""),
      requiredParts |-> nullish(rec, "requiredParts", << >>),
      sourceUrl |-> orElse(rec, "sourceUrl", ""),
      steps |-> nullish(rec, "steps", << >>),
      platform |-> nullish(rec, "platform", "Web") ]

\* One element of the map in normalizeScraperResponse; drawn is the number
\* of uid() calls made for the elements before it.
normalizeRec(rec, seed, drawn) ==
    [ id |-> orElse(rec, "id", uid(seed, drawn + 1)),
      title |-> orElse(rec, "title", "Untitled Project"),
      type |-> normalizeType(rec),
      description |-> orElse(rec, "description", ""),
      difficulty |-> normalizeDifficulty(rec),
      compatibilityScore |-> normalizeScore(rec),
      reasoning |-> orElse(rec, "reasoning", ""),
      requiredParts |-> nullish(rec, "requiredParts", << >>),
      sourceUrl |-> orElse(rec, "sourceUrl", ""),
      steps |-> nullish(rec, "steps", << >>),
      platform |-> nullish(rec, "platform", "Web") ]

normalizeScraperResponse(data, seed) ==
    LET recs == nullish(data, "recommendations", << >>)
        drawnBefore(i) ==
            Cardinality({ j \in 1..(i - 1) : orElse(recs[j], "id", "") = "" })
    IN  [ thoughts |-> nullish(data, "thoughts", << >>),
          recommendations |->
              [ i \in 1..Len(recs) |-> normalizeRec(recs[i], seed, drawnBefore(i)) ],
          searchQueries |-> nullish(data, "searchQueries", << >>),
          deviceSummary |-> nullish(data, "deviceSummary", ""),
          disassemblyUrl |-> nullish(data, "disassemblyUrl", "") ]

\* ------------------------------------------------------------------------
\* POST /api/research: the mock pipeline and the responses
\* ------------------------------------------------------------------------

ErrorResponse(status, message) ==
    [ status |-> status, body |-> [ error |-> message ] ]

SuccessResponse(body) == [ status |-> 200, body |-> body ]

\* Lines 724-757: the fallback of POST, from formulateQueries to
\* NextResponse.json(response).  conditions.length on line 752 reads a field
\* of undefined when the request has no conditions; the TypeError is caught
\* on line 758.
mockPipeline(body, now, seed) ==
    LET deviceName == body.deviceName
        conditions == nullish(body, "conditions", << >>)
        mode == nullish(body, "mode", "Standard")
        formulated == formulateQueries(deviceName, conditions, mode)
        searched == searchWeb(formulated.queries)
        synthesized == synthesizeRecommendations(deviceName, conditions, mode,
                                                 searched.results, seed)
        messages == << "[Fallback] Live scraper unavailable, using cached demo data..." >>
                    \o formulated.thoughts \o searched.thoughts \o synthesized.thoughts
    IN  IF "conditions" \notin DOMAIN body
        THEN ErrorResponse(500, "Internal server error.")
        ELSE SuccessResponse(
               [ thoughts |-> [ i \in 1..Len(messages) |-> thought(now, messages[i]) ],
                 recommendations |-> synthesized.recommendations,
                 searchQueries |-> formulated.queries,
                 deviceSummary |->
                     deviceName \o " with "
                     \o (IF Len(body.conditions) > 0
                         THEN join(body.conditions, ", ")
                         ELSE "no reported issues")
                     \o " - Mode: " \o nullish(body, "mode", "undefined"),
                 disassemblyUrl |-> "" ])

\* ------------------------------------------------------------------------
\* Inputs
\* ------------------------------------------------------------------------

DeviceConditions ==
    << "Screen Broken", "Bad Battery", "Touch Broken",
       "Camera Dead", "Speaker Broken", "No Charging Port" >>

\* The labels of a set of positions of DeviceConditions, in that order
RECURSIVE labelsOf(_, _)
labelsOf(picked, i) ==
    IF i > Len(DeviceConditions) THEN << >>
    ELSE (IF i \in picked THEN << DeviceConditions[i] >> ELSE << >>)
         \o labelsOf(picked, i + 1)

\* Every set of smartphone defects, and one label of another vocabulary
ConditionLists ==
    { labelsOf(picked, 1) : picked \in SUBSET (1..Len(DeviceConditions)) }
    \cup { << "Compressor Dead" >> }

DeviceNames == { "", "  ", "Galaxy S9", "HP Server" }

Modes == { "Standard", "Teardown/Harvest" }

\* The fields of a request body, each of them present or not
RequestObjects ==
    { [ f \in fields |->
          CASE f = "deviceName" -> name
            [] f = "conditions" -> conds
            [] f = "mode" -> mode ] :
        name \in DeviceNames, conds \in ConditionLists, mode \in Modes,
        fields \in SUBSET { "deviceName", "conditions", "mode" } }

RequestBodies ==
    { Unparseable, JsonNull } \cup { JsonObject(o) : o \in RequestObjects }

\* Readings of Date.now() and states of the Math.random() generator
Clock == { 1700000000 }
Seeds == { 1, 2 }

\* What GET /health may carry
HealthBodies ==
    { Unparseable, JsonNull,
      JsonObject([ status |-> "ok" ]),
      JsonObject([ status |-> "ok", groq_configured |-> FALSE ]),
      JsonObject([ status |-> "ok", groq_configured |-> TRUE ]) }

\* Recommendations as the backend may send them
SampleRecs ==
    { [ id |-> "yt-1", title |-> "Phone to Dashcam", type |-> "Hardware Harvest",
        description |-> "Mount it on the windshield.", difficulty |-> "Expert",
        compatibilityScore |-> num(87) + 1, reasoning |-> "Camera works.",
        requiredParts |-> << "Car mount" >>, sourceUrl |-> "https://youtube.com/watch?v=1",
        steps |-> << [ stepNumber |-> 1, description |-> "Install the app." ] >>,
        platform |-> "YouTube" ],
      [ title |-> "Kinetic Sculpture", type |-> "Creative Build",
        difficulty |-> "Beginner", compatibilityScore |-> num(150) ],
      [ id |-> "", title |-> "", type |-> "Gadget", difficulty |-> "Hard",
        compatibilityScore |-> 0 - num(5), platform |-> "" ],
      [ description |-> "An entry with neither title nor score." ] }

RECURSIVE seqsUpTo(_, _)
seqsUpTo(S, n) ==
    IF n = 0 THEN { << >> }
    ELSE LET shorter == seqsUpTo(S, n - 1)
         IN  shorter \cup { Append(l, x) : l \in shorter, x \in S }

\* Short lists of any samples, and one list longer than the cap of 20
BackendRecLists ==
    seqsUpTo(SampleRecs, MaxBackendRecs)
    \cup { [ i \in 1..(20 + 1) |->
               [ id |-> "r" \o ToString(i), title |-> "Project " \o ToString(i),
                 type |-> "Software", difficulty |-> "Beginner",
                 compatibilityScore |-> num(60) ] ] }

\* What POST /scrape may carry
ScrapeBodies ==
    { Unparseable, JsonNull, JsonObject([ detail |-> "no results" ]) }
    \cup { JsonObject([ recommendations |-> l ]) : l \in BackendRecLists }
    \cup { JsonObject([ thoughts |-> << thought(1699999999, "Scraping YouTube...") >>,
                        recommendations |-> l,
                        searchQueries |-> << "galaxy s9 reuse" >>,
                        deviceSummary |-> "Galaxy S9 (Smartphone)",
                        disassemblyUrl |-> "https://www.ifixit.com/Device/Galaxy_S9" ]) :
             l \in seqsUpTo(SampleRecs, 1) }

\* ------------------------------------------------------------------------
\* src/utils/sustainability.js: the e-waste score and its badge
\* ------------------------------------------------------------------------

\* The most devices a user revives, and the largest score rated directly
MaxDevices == 25

MaxScore == 250

\* calculateEWasteSavedScore(devicesRevived)
calculateEWasteSavedScore(revived) ==
    LET scorePerDevice == 10
    IN  revived * scorePerDevice

\* getBadge with the second threshold compared strictly
getBadge_strictStarter(score) ==
    IF score >= 200 THEN [ label |-> "Eco Champion", icon |-> "trophy" ]
    ELSE IF score >= 100 THEN [ label |-> "Green Hero", icon |-> "gold medal" ]
    ELSE IF score > 50
         THEN [ label |-> "Sustainability Starter", icon |-> "silver medal" ]
    ELSE [ label |-> "Beginner", icon |-> "seedling" ]

\* getBadge(score); the icons, which are emoji, are written by their names
getBadge(score) ==
    IF score >= 200 THEN [ label |-> "Eco Champion", icon |-> "trophy" ]
    ELSE IF score >= 100 THEN [ label |-> "Green Hero", icon |-> "gold medal" ]
    ELSE IF score >= 50
         THEN [ label |-> "Sustainability Starter", icon |-> "silver medal" ]
    ELSE [ label |-> "Beginner", icon |-> "seedling" ]

\* The scores handed to getBadge directly
Scores == 0..MaxScore

\* ------------------------------------------------------------------------
\* The page (Home): what the forms offer.  A list of ConditionConfig is
\* written as the list of its labels, the icons being of no consequence.
\* ------------------------------------------------------------------------

DEVICE_TYPES == << "Smartphone", "Laptop", "Tablet", "Desktop", "Other" >>

RAM_OPTIONS == << 0, 1, 2, 3, 4, 6, 8, 12, 16, 32, 64 >>

STORAGE_OPTIONS == << 0, 8, 16, 32, 64, 128, 256, 512, 1024, 2048 >>

SMARTPHONE_CONDITIONS ==
    << "Screen Broken", "Bad Battery", "Touch Broken",
       "Camera Dead", "Speaker Broken", "No Charging Port" >>

LAPTOP_CONDITIONS ==
    << "Screen Broken", "Bad Battery", "Keyboard Broken", "Trackpad Broken",
       "Hinge Broken", "No Charging Port", "Fan Broken", "Overheating" >>

TABLET_CONDITIONS ==
    << "Screen Broken", "Bad Battery", "Touch Broken",
       "Camera Dead", "Speaker Broken", "No Charging Port" >>

DESKTOP_CONDITIONS ==
    << "No Power", "GPU Issues", "Fan Broken", "No Display Output",
       "Drive Failed", "USB Ports Broken", "RAM Issues", "Overheating" >>

APPLIANCE_TYPES ==
    << "Fridge", "TV", "Washing Machine", "AC", "Microwave", "Printer",
       "Other Appliance" >>

APPLIANCE_CONDITIONS ==
    [ Fridge |-> << "Compressor Dead", "Not Cooling", "Water Leak",
                    "Ice Maker Broken", "Door Seal Worn", "Noisy Operation" >>,
      TV |-> << "Screen Cracked", "No Display", "No Sound",
                "Remote Not Working", "Backlight Failed", "HDMI Ports Broken" >>,
      AC |-> << "Not Cooling", "Compressor Dead", "Gas Leak",
                "Noisy Operation", "Remote Not Working", "Water Dripping" >>,
      Microwave |-> << "Not Heating", "Turntable Broken", "Door Won't Close",
                       "Display Dead", "Sparking Inside", "Buttons Unresponsive" >>,
      Printer |-> << "Paper Jam", "Not Printing", "Low Quality Print",
                     "Wi-Fi Issues", "Scanner Broken", "Ink Issues" >> ]
    @@ ("Washing Machine" :>
            << "Won't Spin", "Water Leak", "Won't Drain",
               "Noisy Operation", "Door Won't Lock", "Control Panel Dead" >>)
    @@ ("Other Appliance" :>
            << "No Power", "Not Working", "Noisy Operation",
               "Physical Damage", "Leaking", "Overheating" >>)

\* null, in a piece of state that otherwise holds a string
null == "null"

\* getConditionsForDevice(deviceType, applianceType)
getConditionsForDevice(dt, at) ==
    CASE dt = "Smartphone" -> SMARTPHONE_CONDITIONS
      [] dt = "Laptop" -> LAPTOP_CONDITIONS
      [] dt = "Tablet" -> TABLET_CONDITIONS
      [] dt = "Desktop" -> DESKTOP_CONDITIONS
      [] dt = "Other" -> IF at # null THEN APPLIANCE_CONDITIONS[at] ELSE << >>
      [] OTHER -> SMARTPHONE_CONDITIONS

\* prev.filter((x) => x !== c)
without(prev, c) ==
    LET kept == { i \in 1..Len(prev) : prev[i] # c }
        nth(k) == CHOOSE i \in kept : Cardinality({ j \in kept : j < i }) = k - 1
    IN  [ k \in 1..Cardinality(kept) |-> prev[nth(k)] ]

\* the updater of toggleCondition and toggleEcoCondition with every click
\* appending, whether or not the label is selected
toggled_alwaysAppend(prev, c) == Append(prev, c)

\* the updater of toggleCondition and of toggleEcoCondition:
\*   prev.includes(c) ? prev.filter((x) => x !== c) : [...prev, c]
toggled(prev, c) ==
    IF includes(prev, c) THEN without(prev, c) ELSE Append(prev, c)

\* ------------------------------------------------------------------------
\* POST /api/research as a state machine: one action per stretch of the
\* handler between two awaits.
\* ------------------------------------------------------------------------

VARIABLES
    pc,             \* where the handler of the request in progress stands
    request,        \* the body of the request in progress
    healthTimer,    \* healthTimer:  "unset", "armed", "cleared" or "fired"
    scrapeTimer,    \* scrapeTimer:  likewise
    healthElapsed,  \* 2 s have passed since healthTimer was set
    scrapeElapsed,  \* SCRAPER_TIMEOUT has passed since scrapeTimer was set
    healthRes,      \* healthRes.ok: "none", "ok" or "notok"
    health,         \* the body read by healthRes.json()
    healthCalls,    \* GET /health requests sent for this request
    scrapeCalls,    \* POST /scrape requests sent for this request
    scrapeData,     \* data: the body read by res.json() of /scrape
    pipeline,       \* the steps of the mock pipeline run for this request
    servedBy,       \* which return statement produced the response
    response,       \* the response of the handler
    ecoPc,          \* where the handler of /api/eco-valuation stands
    ecoRequest,     \* the body of the valuation request in progress
    ecoSent,        \* the bodies sent to the backend's /eco-valuation
    ecoRes,         \* res.status of the backend's answer, 0 before it
    ecoBackend,     \* the body the backend delivered, as the proxy read it
    ecoResponse,    \* the response of the valuation handler
    runStage,       \* how far one run of the three mock phases has come
    runInput,       \* deviceName, conditions and mode of that run
    runFormulated,  \* what formulateQueries returned
    runSearched,    \* what searchWeb returned
    runSynthesized, \* what synthesizeRecommendations returned
    inFlight,       \* the requests being served side by side
    devicesRevived, \* the devices a user has revived
    savedScore,     \* what calculateEWasteSavedScore returned for them
    badge,          \* what getBadge returned for savedScore
    ratedScore,     \* a score handed to getBadge directly
    ratedBadge,     \* what getBadge returned for ratedScore
    deviceName,     \* Home: the state of useState, under the names of the page
    conditions,
    mode,
    deviceType,
    applianceType,
    ramGB,
    storageGB,
    phase,
    visibleThoughts,
    shown,          \* Home: response (the name is taken by the route above)
    error,
    activeTab,
    thoughtIndexRef, \* Home: the refs, .current of each
    timerRef,
    allThoughtsRef,
    fetching,       \* the calls of handleSubmit suspended at an await
    timers,         \* the intervals set and not cleared, with their onDone
    ecoDevice,
    ecoConditions,
    ecoDeviceType,
    ecoApplianceType,
    ecoNotes,
    ecoLoading,
    ecoResult,
    ecoError,
    ecoFetching     \* the calls of handleEcoSubmit suspended at an await

researchVars ==
    << pc, request, healthTimer, scrapeTimer, healthElapsed, scrapeElapsed,
       healthRes, health, healthCalls, scrapeCalls, scrapeData, pipeline, servedBy,
       response >>

ecoVars == << ecoPc, ecoRequest, ecoSent, ecoRes, ecoBackend, ecoResponse >>

runVars == << runStage, runInput, runFormulated, runSearched, runSynthesized >>

badgeVars == << devicesRevived, savedScore, badge, ratedScore, ratedBadge >>

inputVars ==
    << deviceName, conditions, mode, deviceType, applianceType, ramGB, storageGB >>

researchStateVars ==
    << phase, visibleThoughts, shown, error, activeTab,
       thoughtIndexRef, timerRef, allThoughtsRef, fetching, timers >>

pageVars == << inputVars, researchStateVars >>

ecoPageVars ==
    << ecoDevice, ecoConditions, ecoDeviceType, ecoApplianceType, ecoNotes,
       ecoLoading, ecoResult, ecoError, ecoFetching >>

homeVars == << pageVars, ecoPageVars >>

vars == << researchVars, ecoVars, mockDb, runVars, inFlight, badgeVars, homeVars >>

NoBody == [ json |-> "none" ]
NoResponse == [ status |-> 0 ]

MockSteps == { "formulateQueries", "searchWeb", "synthesizeRecommendations" }

\* Two requests are enough to have one served while another is in progress.
Slots == { "first", "second" }

NoRequest == [ stage |-> "idle" ]

\* No request has arrived at any route and no phase has run.
Quiet ==
    /\ pc = "idle"
    /\ request = NoBody
    /\ healthTimer = "unset"
    /\ scrapeTimer = "unset"
    /\ healthElapsed = FALSE
    /\ scrapeElapsed = FALSE
    /\ healthRes = "none"
    /\ health = NoBody
    /\ healthCalls = 0
    /\ scrapeCalls = 0
    /\ scrapeData = NoBody
    /\ pipeline = {}
    /\ servedBy = "none"
    /\ response = NoResponse
    /\ ecoPc = "idle"
    /\ ecoRequest = NoBody
    /\ ecoSent = << >>
    /\ ecoRes = 0
    /\ ecoBackend = NoBody
    /\ ecoResponse = NoResponse
    /\ runStage = "idle"
    /\ runInput = NoBody
    /\ runFormulated = NoBody
    /\ runSearched = NoBody
    /\ runSynthesized = NoBody
    /\ inFlight = [ s \in Slots |-> NoRequest ]
    /\ devicesRevived = 0
    /\ savedScore = calculateEWasteSavedScore(0)
    /\ badge = getBadge(calculateEWasteSavedScore(0))
    /\ ratedScore = 0
    /\ ratedBadge = getBadge(0)
    /\ deviceName = ""
    /\ conditions = << >>
    /\ mode = "Standard"
    /\ deviceType = "Smartphone"
    /\ applianceType = null
    /\ ramGB = 0
    /\ storageGB = 0
    /\ phase = "idle"
    /\ visibleThoughts = << >>
    /\ shown = JsonNull
    /\ error = null
    /\ activeTab = "software"
    /\ thoughtIndexRef = 0
    /\ timerRef = 0
    /\ allThoughtsRef = << >>
    /\ fetching = << >>
    /\ timers = { }
    /\ ecoDevice = ""
    /\ ecoConditions = << >>
    /\ ecoDeviceType = "Smartphone"
    /\ ecoApplianceType = null
    /\ ecoNotes = ""
    /\ ecoLoading = FALSE
    /\ ecoResult = JsonNull
    /\ ecoError = null
    /\ ecoFetching = << >>

\* The state after the module is loaded.
Init ==
    /\ Quiet
    /\ mockDb = MOCK_RESULTS_DB

\* tryRealScraper returned null (or threw into its catch): lines 724-757,
\* or the catch of line 758 when the mock pipeline throws.
Fallback(now, seed) ==
    /\ pc' = "done"
    /\ pipeline' = MockSteps
    /\ response' = mockPipeline(request.value, now, seed)
    /\ servedBy' = IF response'.status = 200 THEN "mock" ELSE "catch"

\* The validation without the trim: only an absent or empty name is refused.
nameMissing_noTrim(body) ==
    \/ "deviceName" \notin DOMAIN body
    \/ body.deviceName = ""

\* !deviceName || deviceName.trim().length === 0
nameMissing(body) ==
    \/ "deviceName" \notin DOMAIN body
    \/ body.deviceName = ""
    \/ Len(trim(body.deviceName)) = 0

\* Lines 706-722 and 669-675: the request arrives; the handler parses it,
\* validates the device name and, for an accepted request, sets the health
\* timer and sends GET /health.  A body that does not parse, or null (which
\* cannot be destructured), throws into the catch of line 758.
Receive(body) ==
    /\ pc = "idle"
    /\ request' = body
    /\ IF body.json # "object"
       THEN /\ pc' = "done"
            /\ response' = ErrorResponse(500, "Internal server error.")
            /\ servedBy' = "catch"
            /\ UNCHANGED << healthTimer, healthCalls >>
       ELSE IF nameMissing(body.value)
       THEN /\ pc' = "done"
            /\ response' = ErrorResponse(400, "Device name is required.")
            /\ servedBy' = "reject"
            /\ UNCHANGED << healthTimer, healthCalls >>
       ELSE /\ pc' = "health_fetch"
            /\ healthTimer' = "armed"
            /\ healthCalls' = healthCalls + 1
            /\ UNCHANGED << response, servedBy >>
    /\ UNCHANGED << scrapeTimer, healthElapsed, scrapeElapsed, healthRes, health,
                    scrapeCalls, pipeline >>
    /\ UNCHANGED scrapeData
    /\ UNCHANGED << ecoVars, mockDb, runVars, inFlight,
                 badgeVars, homeVars >>

\* fetch(/health) rejects: the backend cannot be reached.
HealthFetchFails(now, seed) ==
    /\ pc = "health_fetch"
    /\ Fallback(now, seed)
    /\ UNCHANGED << request, healthTimer, scrapeTimer, healthElapsed, scrapeElapsed,
                    healthRes, health, healthCalls, scrapeCalls >>
    /\ UNCHANGED scrapeData
    /\ UNCHANGED << ecoVars, mockDb, runVars, inFlight,
                 badgeVars, homeVars >>

\* Line 672: the 2 s timer fires while fetch(/health) is pending and aborts it.
HealthTimeout(now, seed) ==
    /\ pc = "health_fetch"
    /\ healthTimer = "armed"
    /\ healthTimer' = "fired"
    /\ healthElapsed' = TRUE
    /\ Fallback(now, seed)
    /\ UNCHANGED << request, scrapeTimer, scrapeElapsed, healthRes, health,
                    healthCalls, scrapeCalls >>
    /\ UNCHANGED scrapeData
    /\ UNCHANGED << ecoVars, mockDb, runVars, inFlight,
                 badgeVars, homeVars >>

\* Lines 676-680: the status line and headers of /health arrive; the timer is
\* cleared and, when the status is ok, the body is awaited.
HealthResponds(ok, now, seed) ==
    /\ pc = "health_fetch"
    /\ healthTimer' = "cleared"
    /\ healthRes' = IF ok THEN "ok" ELSE "notok"
    /\ IF ok
       THEN /\ pc' = "health_json"
            /\ UNCHANGED << pipeline, response, servedBy >>
       ELSE Fallback(now, seed)
    /\ UNCHANGED << request, scrapeTimer, healthElapsed, scrapeElapsed, health,
                    healthCalls, scrapeCalls >>
    /\ UNCHANGED scrapeData
    /\ UNCHANGED << ecoVars, mockDb, runVars, inFlight,
                 badgeVars, homeVars >>

\* 2 s pass while the body of /health is awaited: the timer is cleared, so
\* nothing runs.
TwoSecondsPass ==
    /\ pc = "health_json"
    /\ ~healthElapsed
    /\ healthElapsed' = TRUE
    /\ UNCHANGED << pc, request, healthTimer, scrapeTimer, scrapeElapsed, healthRes,
                    health, healthCalls, scrapeCalls, pipeline, servedBy, response >>
    /\ UNCHANGED scrapeData
    /\ UNCHANGED << ecoVars, mockDb, runVars, inFlight,
                 badgeVars, homeVars >>

\* The check of the health body without its groq_configured field.
groqConfigured_anyObject(b) == b.json = "object"

groqConfigured(b) ==
    /\ b.json = "object"
    /\ "groq_configured" \in DOMAIN b.value
    /\ b.value.groq_configured = TRUE

\* Lines 680-691: healthRes.json() settles; when the backend is configured the
\* scrape timer is set and POST /scrape is sent.
HealthBody(b, now, seed) ==
    /\ pc = "health_json"
    /\ health' = b
    /\ IF groqConfigured(b)
       THEN /\ pc' = "scrape_fetch"
            /\ scrapeTimer' = "armed"
            /\ scrapeCalls' = scrapeCalls + 1
            /\ UNCHANGED << pipeline, response, servedBy >>
       ELSE /\ Fallback(now, seed)
            /\ UNCHANGED << scrapeTimer, scrapeCalls >>
    /\ UNCHANGED << request, healthTimer, healthElapsed, scrapeElapsed, healthRes,
                    healthCalls >>
    /\ UNCHANGED scrapeData
    /\ UNCHANGED << ecoVars, mockDb, runVars, inFlight,
                 badgeVars, homeVars >>

\* fetch(/scrape) rejects.
ScrapeFetchFails(now, seed) ==
    /\ pc = "scrape_fetch"
    /\ Fallback(now, seed)
    /\ UNCHANGED << request, healthTimer, scrapeTimer, healthElapsed, scrapeElapsed,
                    healthRes, health, healthCalls, scrapeCalls >>
    /\ UNCHANGED scrapeData
    /\ UNCHANGED << ecoVars, mockDb, runVars, inFlight,
                 badgeVars, homeVars >>

\* Line 685: the scrape timer fires while fetch(/scrape) is pending.
ScrapeTimeout(now, seed) ==
    /\ pc = "scrape_fetch"
    /\ scrapeTimer = "armed"
    /\ scrapeTimer' = "fired"
    /\ scrapeElapsed' = TRUE
    /\ Fallback(now, seed)
    /\ UNCHANGED << request, healthTimer, healthElapsed, healthRes, health,
                    healthCalls, scrapeCalls >>
    /\ UNCHANGED scrapeData
    /\ UNCHANGED << ecoVars, mockDb, runVars, inFlight,
                 badgeVars, homeVars >>

\* Lines 692-696: the status line and headers of /scrape arrive.
ScrapeResponds(ok, now, seed) ==
    /\ pc = "scrape_fetch"
    /\ scrapeTimer' = "cleared"
    /\ IF ok
       THEN /\ pc' = "scrape_json"
            /\ UNCHANGED << pipeline, response, servedBy >>
       ELSE Fallback(now, seed)
    /\ UNCHANGED << request, healthTimer, healthElapsed, scrapeElapsed, healthRes,
                    health, healthCalls, scrapeCalls >>
    /\ UNCHANGED scrapeData
    /\ UNCHANGED << ecoVars, mockDb, runVars, inFlight,
                 badgeVars, homeVars >>

\* SCRAPER_TIMEOUT passes while the body of /scrape is awaited.
NinetySecondsPass ==
    /\ pc = "scrape_json"
    /\ ~scrapeElapsed
    /\ scrapeElapsed' = TRUE
    /\ UNCHANGED << pc, request, healthTimer, scrapeTimer, healthElapsed, healthRes,
                    health, healthCalls, scrapeCalls, pipeline, servedBy, response >>
    /\ UNCHANGED scrapeData
    /\ UNCHANGED << ecoVars, mockDb, runVars, inFlight,
                 badgeVars, homeVars >>

\* Lines 696-697 and 719-722: res.json() settles; an object is normalized and
\* returned, anything else throws into the catch of tryRealScraper.
ScrapeBody(d, now, seed) ==
    /\ pc = "scrape_json"
    /\ scrapeData' = d
    /\ IF d.json = "object"
       THEN /\ pc' = "done"
            /\ response' = SuccessResponse(normalizeScraperResponse(d.value, seed))
            /\ servedBy' = "scraper"
            /\ UNCHANGED pipeline
       ELSE Fallback(now, seed)
    /\ UNCHANGED << request, healthTimer, scrapeTimer, healthElapsed, scrapeElapsed,
                    healthRes, health, healthCalls, scrapeCalls >>
    /\ UNCHANGED << ecoVars, mockDb, runVars, inFlight,
                 badgeVars, homeVars >>

\* The response is sent; nothing of the request outlives it.
Finish ==
    /\ pc = "done"
    /\ pc' = "idle"
    /\ request' = NoBody
    /\ healthTimer' = "unset"
    /\ scrapeTimer' = "unset"
    /\ healthElapsed' = FALSE
    /\ scrapeElapsed' = FALSE
    /\ healthRes' = "none"
    /\ health' = NoBody
    /\ healthCalls' = 0
    /\ scrapeCalls' = 0
    /\ scrapeData' = NoBody
    /\ pipeline' = {}
    /\ servedBy' = "none"
    /\ response' = NoResponse
    /\ UNCHANGED << ecoVars, mockDb, runVars, inFlight,
                 badgeVars, homeVars >>

Next ==
    \/ \E body \in RequestBodies : Receive(body)
    \/ \E now \in Clock, seed \in Seeds : HealthFetchFails(now, seed)
    \/ \E now \in Clock, seed \in Seeds : HealthTimeout(now, seed)
    \/ \E ok \in BOOLEAN, now \in Clock, seed \in Seeds : HealthResponds(ok, now, seed)
    \/ TwoSecondsPass
    \/ \E b \in HealthBodies, now \in Clock, seed \in Seeds : HealthBody(b, now, seed)
    \/ \E now \in Clock, seed \in Seeds : ScrapeFetchFails(now, seed)
    \/ \E now \in Clock, seed \in Seeds : ScrapeTimeout(now, seed)
    \/ \E ok \in BOOLEAN, now \in Clock, seed \in Seeds : ScrapeResponds(ok, now, seed)
    \/ NinetySecondsPass
    \/ \E d \in ScrapeBodies, now \in Clock, seed \in Seeds : ScrapeBody(d, now, seed)
    \/ Finish

Spec == Init /\ [][Next]_vars

\* ------------------------------------------------------------------------
\* POST /api/eco-valuation
\* ------------------------------------------------------------------------

EcoRequestObjects ==
    { [ f \in fields |->
          CASE f = "deviceName" -> name
            [] f = "conditions" -> << "Bad Battery", "No Charging Port" >>
            [] f = "additionalNotes" -> "Cracked back glass"
            [] f = "deviceType" -> "Laptop" ] :
        name \in { "", "Galaxy S9" },
        fields \in SUBSET { "deviceName", "conditions", "additionalNotes", "deviceType" } }
    \cup { [ deviceName |-> "ThinkPad T480", ramGB |-> num(8), storageGB |-> num(256),
             images |-> << "aGVsbG8=" >> ],
           [ deviceName |-> "ThinkPad T480", ramGB |-> 0, storageGB |-> 0,
             images |-> << >> ] }

EcoRequestBodies ==
    { Unparseable, JsonNull } \cup { JsonObject(o) : o \in EcoRequestObjects }

\* Status codes the backend answers with
BackendStatuses == { 200, 201, 400, 422, 500, 503 }

\* res.ok
isOk(status) == status >= 200 /\ status <= 299

\* Texts res.text() may read from a failed answer
BackendDetails == { "", "{\"detail\":\"Groq API error: rate limit exceeded\"}" }

SampleOffer(partner) ==
    [ partner |-> partner, offerType |-> "Trade-In Credit",
      headline |-> "Trade in your device", monetaryValueCap |-> "$60",
      couponUrl |-> "https://example.com/trade-in", reasoning |-> "Accepts damaged devices." ]

\* Bodies res.json() may read from an ok answer
BackendValuations ==
    { Unparseable, JsonNull,
      JsonObject([ valuationSummary |-> JsonNull, tradeInOffers |-> << >> ]),
      JsonObject([ valuationSummary |->
                     [ deviceName |-> "Galaxy S9", conditionGrade |-> "D",
                       estimatedResaleUsd |-> num(40), estimatedResaleInr |-> num(3320),
                       estimatedScrapCashUsd |-> num(8), estimatedScrapCashInr |-> num(664),
                       ecoMessage |-> "Recycling keeps 150 g of e-waste out of landfill." ],
                   tradeInOffers |-> << SampleOffer("Amazon"), SampleOffer("Best Buy"),
                                        SampleOffer("Samsung") >> ]) }

\* body.f || dflt for a number
orZero(obj, f) == IF f \in DOMAIN obj THEN obj[f] ELSE 0

\* body.f || [] for an array ([] is truthy, so an array is kept as it is)
orEmpty(obj, f) == IF f \in DOMAIN obj THEN obj[f] ELSE << >>

\* Lines 14-22: the body forwarded to the backend
ecoForward(body) ==
    [ deviceName |-> orElse(body, "deviceName", ""),
      conditions |-> orEmpty(body, "conditions"),
      additionalNotes |-> orElse(body, "additionalNotes", ""),
      deviceType |-> orElse(body, "deviceType", "Smartphone"),
      ramGB |-> orZero(body, "ramGB"),
      storageGB |-> orZero(body, "storageGB"),
      images |-> orEmpty(body, "images") ]

\* A catch block that answers with a made-up valuation.
ecoFailure_default ==
    SuccessResponse(JsonObject([ valuationSummary |-> JsonNull, tradeInOffers |-> << >> ]))

\* Lines 35-41: the answer of the catch block
ecoFailure == ErrorResponse(502, "Failed to reach valuation service")

\* Lines 25-31: the answer to a backend status that is not ok
ecoRelay(status, detail) ==
    ErrorResponse(status, IF detail # "" THEN detail ELSE "Eco valuation failed")

\* Lines 7-23: the request arrives; its body is parsed and forwarded.  A body
\* that does not parse, or null (whose fields cannot be read), throws.
EcoReceive(body) ==
    /\ ecoPc = "idle"
    /\ ecoRequest' = body
    /\ IF body.json = "object"
       THEN /\ ecoPc' = "fetch"
            /\ ecoSent' = Append(ecoSent, ecoForward(body.value))
            /\ UNCHANGED ecoResponse
       ELSE /\ ecoPc' = "done"
            /\ ecoResponse' = ecoFailure
            /\ UNCHANGED ecoSent
    /\ UNCHANGED << ecoRes, ecoBackend >>
    /\ UNCHANGED << researchVars, mockDb, runVars, inFlight,
                 badgeVars, homeVars >>

\* fetch(/eco-valuation) rejects: the backend cannot be reached.
EcoFetchFails ==
    /\ ecoPc = "fetch"
    /\ ecoPc' = "done"
    /\ ecoResponse' = ecoFailure
    /\ UNCHANGED << ecoRequest, ecoSent, ecoRes, ecoBackend >>
    /\ UNCHANGED << researchVars, mockDb, runVars, inFlight,
                 badgeVars, homeVars >>

\* Lines 23-26 and 33: the status line of the backend arrives.
EcoResponds(status) ==
    /\ ecoPc = "fetch"
    /\ ecoRes' = status
    /\ ecoPc' = IF isOk(status) THEN "json" ELSE "text"
    /\ UNCHANGED << ecoRequest, ecoSent, ecoBackend, ecoResponse >>
    /\ UNCHANGED << researchVars, mockDb, runVars, inFlight,
                 badgeVars, homeVars >>

\* Lines 26-30: res.text() of a failed answer settles.
EcoText(detail) ==
    /\ ecoPc = "text"
    /\ ecoPc' = "done"
    /\ ecoBackend' = [ json |-> "text", value |-> detail ]
    /\ ecoResponse' = ecoRelay(ecoRes, detail)
    /\ UNCHANGED << ecoRequest, ecoSent, ecoRes >>
    /\ UNCHANGED << researchVars, mockDb, runVars, inFlight,
                 badgeVars, homeVars >>

\* res.text() rejects: the connection broke while the body was read.
EcoTextFails ==
    /\ ecoPc = "text"
    /\ ecoPc' = "done"
    /\ ecoResponse' = ecoFailure
    /\ UNCHANGED << ecoRequest, ecoSent, ecoRes, ecoBackend >>
    /\ UNCHANGED << researchVars, mockDb, runVars, inFlight,
                 badgeVars, homeVars >>

\* Lines 33-34: res.json() of an ok answer settles.
EcoJson(b) ==
    /\ ecoPc = "json"
    /\ ecoPc' = "done"
    /\ ecoBackend' = b
    /\ ecoResponse' = IF b = Unparseable THEN ecoFailure ELSE SuccessResponse(b)
    /\ UNCHANGED << ecoRequest, ecoSent, ecoRes >>
    /\ UNCHANGED << researchVars, mockDb, runVars, inFlight,
                 badgeVars, homeVars >>

\* The response is sent; nothing of the request outlives it.
EcoFinish ==
    /\ ecoPc = "done"
    /\ ecoPc' = "idle"
    /\ ecoRequest' = NoBody
    /\ ecoSent' = << >>
    /\ ecoRes' = 0
    /\ ecoBackend' = NoBody
    /\ ecoResponse' = NoResponse
    /\ UNCHANGED << researchVars, mockDb, runVars, inFlight,
                 badgeVars, homeVars >>

EcoNext ==
    \/ \E body \in EcoRequestBodies : EcoReceive(body)
    \/ EcoFetchFails
    \/ \E status \in BackendStatuses : EcoResponds(status)
    \/ \E detail \in BackendDetails : EcoText(detail)
    \/ EcoTextFails
    \/ \E b \in BackendValuations : EcoJson(b)
    \/ EcoFinish

EcoSpec == Init /\ [][EcoNext]_vars

\* ------------------------------------------------------------------------
\* The three phases of the mock pipeline, one at a time: what POST does
\* between the return of tryRealScraper and the building of the response,
\* with what each phase returned kept for inspection.
\* ------------------------------------------------------------------------

\* The defects are listed in the order the checkboxes were ticked.
RunConditionLists ==
    ConditionLists
    \cup { << "Bad Battery", "Screen Broken" >>,
           << "Compressor Dead", "Screen Broken" >>,
           << "Bad Battery", "No Charging Port", "Compressor Dead" >> }

RunDeviceNames == { "", "Galaxy S9", "Smart Mirror X" }

RunInputs ==
    [ deviceName : RunDeviceNames, conditions : RunConditionLists, mode : Modes ]

\* The "server" bucket with the Pi-hole guide of the "headless" bucket
\* listed a second time, as another site spells its title.
RespelledTable ==
    [ MOCK_RESULTS_DB EXCEPT
        !["server"] = Append(@, [ title |-> "PI-HOLE on Android, via Linux Deploy!",
                                  url |-> "https://example.com/pihole-android",
                                  snippet |-> "Block ads network-wide from an old phone.",
                                  score |-> 90 ]) ]

\* The tables searchWeb is run on: the one of the repository, and one in
\* which two titles differ by case and punctuation only.
MockTables == { MOCK_RESULTS_DB, RespelledTable }

RunInit ==
    /\ Quiet
    /\ mockDb \in MockTables

\* const { deviceName, conditions, mode } = body
RunStart(input) ==
    /\ runStage = "idle"
    /\ runStage' = "input"
    /\ runInput' = input
    /\ UNCHANGED << runFormulated, runSearched, runSynthesized >>
    /\ UNCHANGED << researchVars, ecoVars, mockDb, inFlight,
                 badgeVars, homeVars >>

\* Phase 1 - Formulate queries
RunFormulate ==
    /\ runStage = "input"
    /\ runStage' = "formulated"
    /\ runFormulated' = formulateQueries(runInput.deviceName, runInput.conditions,
                                         runInput.mode)
    /\ UNCHANGED << runInput, runSearched, runSynthesized >>
    /\ UNCHANGED << researchVars, ecoVars, mockDb, inFlight,
                 badgeVars, homeVars >>

\* Phase 2 - Mock web search
RunSearch ==
    /\ runStage = "formulated"
    /\ runStage' = "searched"
    /\ runSearched' = searchWeb(runFormulated.queries)
    /\ UNCHANGED << runInput, runFormulated, runSynthesized >>
    /\ UNCHANGED << researchVars, ecoVars, mockDb, inFlight,
                 badgeVars, homeVars >>

\* Phase 3 - Synthesize into recommendations
RunSynthesize(seed) ==
    /\ runStage = "searched"
    /\ runStage' = "synthesized"
    /\ runSynthesized' = synthesizeRecommendations(runInput.deviceName,
                                                   runInput.conditions, runInput.mode,
                                                   runSearched.results, seed)
    /\ UNCHANGED << runInput, runFormulated, runSearched >>
    /\ UNCHANGED << researchVars, ecoVars, mockDb, inFlight,
                 badgeVars, homeVars >>

\* The handler returns; its locals are gone.
RunReturn ==
    /\ runStage = "synthesized"
    /\ runStage' = "idle"
    /\ runInput' = NoBody
    /\ runFormulated' = NoBody
    /\ runSearched' = NoBody
    /\ runSynthesized' = NoBody
    /\ UNCHANGED << researchVars, ecoVars, mockDb, inFlight,
                 badgeVars, homeVars >>

RunNext ==
    \/ \E input \in RunInputs : RunStart(input)
    \/ RunFormulate
    \/ RunSearch
    \/ \E seed \in Seeds : RunSynthesize(seed)
    \/ RunReturn

RunSpec == RunInit /\ [][RunNext]_vars

\* ------------------------------------------------------------------------
\* Requests served side by side. POST runs once per request; an invocation
\* is suspended at await tryRealScraper(body), and when the scraper is not
\* available the rest of the handler has no await: it runs to its return
\* statement before any other invocation goes on.
\* ------------------------------------------------------------------------

\* Named requests, with or without their conditions and their mode
SideBySideBodies ==
    { o \in RequestObjects :
        /\ "deviceName" \in DOMAIN o
        /\ o.deviceName \in { "Galaxy S9", "HP Server" }
        /\ "conditions" \in DOMAIN o =>
              o.conditions \in { << >>, << "Screen Broken" >>, << "Camera Dead" >>,
                                 << "Bad Battery" >>, << "Speaker Broken" >>,
                                 << "Bad Battery", "No Charging Port" >> } }

\* Date.now() reads differently for requests that arrive at different times
LaterClock == Clock \cup { 1700000500 }

\* The body is parsed, the name is there: await tryRealScraper(body)
Arrive(s, body) ==
    /\ inFlight[s].stage = "idle"
    /\ inFlight' = [ inFlight EXCEPT ![s] = [ stage |-> "waiting", body |-> body ] ]
    /\ UNCHANGED << researchVars, ecoVars, mockDb, runVars,
                 badgeVars, homeVars >>

\* tryRealScraper returned null: the mock pipeline, or the catch
ServeMock(s, now, seed) ==
    /\ inFlight[s].stage = "waiting"
    /\ inFlight' = [ inFlight EXCEPT ![s] =
                       [ stage |-> "served", body |-> inFlight[s].body,
                         response |-> mockPipeline(inFlight[s].body, now, seed) ] ]
    /\ UNCHANGED << researchVars, ecoVars, mockDb, runVars,
                 badgeVars, homeVars >>

\* The response is sent
Depart(s) ==
    /\ inFlight[s].stage = "served"
    /\ inFlight' = [ inFlight EXCEPT ![s] = NoRequest ]
    /\ UNCHANGED << researchVars, ecoVars, mockDb, runVars,
                 badgeVars, homeVars >>

ServeNext ==
    \/ \E s \in Slots, body \in SideBySideBodies : Arrive(s, body)
    \/ \E s \in Slots, now \in LaterClock, seed \in Seeds : ServeMock(s, now, seed)
    \/ \E s \in Slots : Depart(s)

ServeSpec == Init /\ [][ServeNext]_vars

\* ------------------------------------------------------------------------
\* The badge of a user who revives devices one after another, and the badge
\* of a score rated directly.
\* ------------------------------------------------------------------------

\* one more device revived: the score and the badge are computed again
Revive ==
    /\ devicesRevived < MaxDevices
    /\ devicesRevived' = devicesRevived + 1
    /\ savedScore' = calculateEWasteSavedScore(devicesRevived + 1)
    /\ badge' = getBadge(calculateEWasteSavedScore(devicesRevived + 1))
    /\ UNCHANGED << ratedScore, ratedBadge >>
    /\ UNCHANGED << researchVars, ecoVars, mockDb, runVars, inFlight, homeVars >>

\* getBadge(score) for a score of any origin
Rate(score) ==
    /\ ratedScore' = score
    /\ ratedBadge' = getBadge(score)
    /\ UNCHANGED << devicesRevived, savedScore, badge >>
    /\ UNCHANGED << researchVars, ecoVars, mockDb, runVars, inFlight, homeVars >>

BadgeNext ==
    \/ Revive
    \/ \E score \in Scores : Rate(score)

BadgeSpec == Init /\ [][BadgeNext]_vars

\* ------------------------------------------------------------------------
\* The page (Home), research side.  An event handler runs to its end or to
\* its next await in one step; the state it sets is rendered before the next
\* event, so a control can be used only in a state that renders it.
\* ------------------------------------------------------------------------

\* The most thoughts in a reply, and the most calls suspended at an await
MaxThoughts == 4

MaxPending == 2

\* Everything but the state of the page
offPage == << researchVars, ecoVars, mockDb, runVars, inFlight, badgeVars >>

\* A ResearchResponse with n thoughts
ResearchReply(n) ==
    [ thoughts |-> [ i \in 1..n |-> thought(1700000000 + i, "Step " \o ToString(i)) ],
      recommendations |-> << >>,
      searchQueries |-> << >>,
      deviceSummary |-> "Galaxy S9 with no reported issues - Mode: Standard" ]

ResearchReplies == { ResearchReply(n) : n \in 0..MaxThoughts }

\* The elements of a list
elements(arr) == { arr[i] : i \in 1..Len(arr) }

\* s with its i-th element taken out
dropAt(s, i) == SubSeq(s, 1, i - 1) \o SubSeq(s, i + 1, Len(s))

\* The idle screen, with both forms, is rendered
formRendered_always == TRUE

formRendered == phase = "idle"

\* The results screen and the error screen, each with its reset button
resultsRendered == phase = "complete" /\ shown # JsonNull

errorRendered == phase = "error"

\* onChange of the search bar
setDeviceName(name) ==
    /\ formRendered
    /\ deviceName' = name
    /\ UNCHANGED << conditions, mode, deviceType, applianceType, ramGB, storageGB >>
    /\ UNCHANGED << researchStateVars, ecoPageVars, offPage >>

\* handleDeviceTypeChange(dt)
handleDeviceTypeChange(dt) ==
    /\ formRendered
    /\ deviceType' = dt
    /\ conditions' = << >>
    /\ applianceType' = IF dt # "Other" THEN null ELSE applianceType
    /\ UNCHANGED << deviceName, mode, ramGB, storageGB >>
    /\ UNCHANGED << researchStateVars, ecoPageVars, offPage >>

\* handleApplianceTypeChange(at); the buttons are there for "Other" only
handleApplianceTypeChange(at) ==
    /\ formRendered
    /\ deviceType = "Other"
    /\ applianceType' = at
    /\ conditions' = << >>
    /\ UNCHANGED << deviceName, mode, deviceType, ramGB, storageGB >>
    /\ UNCHANGED << researchStateVars, ecoPageVars, offPage >>

\* toggleCondition(c), from one of the buttons of currentConditions
toggleCondition(c) ==
    /\ formRendered
    /\ c \in elements(getConditionsForDevice(deviceType, applianceType))
    /\ conditions' = toggled(conditions, c)
    /\ UNCHANGED << deviceName, mode, deviceType, applianceType, ramGB, storageGB >>
    /\ UNCHANGED << researchStateVars, ecoPageVars, offPage >>

\* the RAM slider at position i (counted from 1)
setRamGB(i) ==
    /\ formRendered
    /\ ramGB' = RAM_OPTIONS[i]
    /\ UNCHANGED << deviceName, conditions, mode, deviceType, applianceType, storageGB >>
    /\ UNCHANGED << researchStateVars, ecoPageVars, offPage >>

\* the storage slider at position i (counted from 1)
setStorageGB(i) ==
    /\ formRendered
    /\ storageGB' = STORAGE_OPTIONS[i]
    /\ UNCHANGED << deviceName, conditions, mode, deviceType, applianceType, ramGB >>
    /\ UNCHANGED << researchStateVars, ecoPageVars, offPage >>

\* the harvesting switch
setMode ==
    /\ formRendered
    /\ mode' = IF mode = "Standard" THEN "Teardown/Harvest" ELSE "Standard"
    /\ UNCHANGED << deviceName, conditions, deviceType, applianceType, ramGB, storageGB >>
    /\ UNCHANGED << researchStateVars, ecoPageVars, offPage >>

\* handleSubmit up to await fetch("/api/research", ...).  The request is on
\* the wire; what the page keeps of the call is where it is suspended.
handleSubmit ==
    IF trim(deviceName) = ""
    THEN UNCHANGED vars
    ELSE /\ Len(fetching) < MaxPending
         /\ phase' = "searching"
         /\ error' = null
         /\ shown' = JsonNull
         /\ visibleThoughts' = << >>
         /\ fetching' = Append(fetching, [ stage |-> "fetch" ])
         /\ UNCHANGED << activeTab, thoughtIndexRef, timerRef, allThoughtsRef, timers >>
         /\ UNCHANGED << inputVars, ecoPageVars, offPage >>

\* The submit button, disabled while the name is blank
SubmitClick == formRendered /\ trim(deviceName) # "" /\ handleSubmit

\* Enter in the search bar
SubmitEnter == formRendered /\ handleSubmit

\* catch (err): setError(err.message); setPhase("error")
researchFailed(i, message) ==
    /\ error' = message
    /\ phase' = "error"
    /\ fetching' = dropAt(fetching, i)
    /\ UNCHANGED << visibleThoughts, shown, activeTab,
                    thoughtIndexRef, timerRef, allThoughtsRef, timers >>
    /\ UNCHANGED << inputVars, ecoPageVars, offPage >>

\* fetch rejects: no connection
ResearchFetchFails(i) ==
    /\ i \in 1..Len(fetching)
    /\ fetching[i].stage = "fetch"
    /\ researchFailed(i, "Failed to fetch")

\* fetch resolves: if (!res.ok) throw ...; else await res.json()
ResearchResponds(i, ok) ==
    /\ i \in 1..Len(fetching)
    /\ fetching[i].stage = "fetch"
    /\ IF ok
       THEN /\ fetching' = [ fetching EXCEPT ![i].stage = "json" ]
            /\ UNCHANGED << phase, visibleThoughts, shown, error, activeTab,
                            thoughtIndexRef, timerRef, allThoughtsRef, timers >>
            /\ UNCHANGED << inputVars, ecoPageVars, offPage >>
       ELSE researchFailed(i, "Research failed. Please try again.")

\* res.json() rejects: the body is no JSON
ResearchJsonFails(i) ==
    /\ i \in 1..Len(fetching)
    /\ fetching[i].stage = "json"
    /\ researchFailed(i, "Unexpected end of JSON input")

\* setInterval returns an id no interval has had; ids are told apart by
\* equality only, so the least id not in use stands for it
newTimer ==
    CHOOSE k \in 1..(Cardinality(timers) + 2) :
        /\ k # timerRef
        /\ \A t \in timers : t.id # k
        /\ \A j \in 1..(k - 1) : j = timerRef \/ \E t \in timers : t.id = j

\* clearInterval(id) leaving every interval running
cleared_none(active, id) == active

\* clearInterval(id): the intervals still running
cleared(active, id) == { t \in active : t.id # id }

\* res.json() resolves: animateThoughts(data.thoughts, onDone) up to the
\* return of setInterval
ResearchJson(i, data) ==
    /\ i \in 1..Len(fetching)
    /\ fetching[i].stage = "json"
    /\ fetching' = dropAt(fetching, i)
    /\ allThoughtsRef' = data.thoughts
    /\ thoughtIndexRef' = 0
    /\ visibleThoughts' = << >>
    /\ timerRef' = newTimer
    /\ timers' = timers \cup { [ id |-> newTimer, data |-> data ] }
    /\ UNCHANGED << phase, shown, error, activeTab >>
    /\ UNCHANGED << inputVars, ecoPageVars, offPage >>

\* the phases handed out in the opposite order
phaseAt_reversed(idx, len) ==
    IF 10 * idx < 3 * len THEN "synthesizing"
    ELSE IF 10 * idx < 7 * len THEN "analyzing"
    ELSE "searching"

\* const progress = idx / allThoughtsRef.current.length; the phase for it
phaseAt(idx, len) ==
    IF 10 * idx < 3 * len THEN "searching"
    ELSE IF 10 * idx < 7 * len THEN "analyzing"
    ELSE "synthesizing"

\* One run of the callback of setInterval for the interval t
Tick(t) ==
    /\ t \in timers
    /\ LET idx == thoughtIndexRef
       IN  IF idx >= Len(allThoughtsRef)
           THEN /\ timers' = IF timerRef # 0 THEN cleared(timers, timerRef) ELSE timers
                /\ shown' = t.data
                /\ phase' = "complete"
                /\ UNCHANGED << visibleThoughts, thoughtIndexRef >>
           ELSE /\ visibleThoughts' = Append(visibleThoughts, allThoughtsRef[idx + 1])
                /\ thoughtIndexRef' = idx + 1
                /\ phase' = phaseAt(idx, Len(allThoughtsRef))
                /\ UNCHANGED << shown, timers >>
    /\ UNCHANGED << error, activeTab, timerRef, allThoughtsRef, fetching >>
    /\ UNCHANGED << inputVars, ecoPageVars, offPage >>

\* a tab of the results screen
setActiveTab(tab) ==
    /\ resultsRendered
    /\ activeTab' = tab
    /\ UNCHANGED << phase, visibleThoughts, shown, error,
                    thoughtIndexRef, timerRef, allThoughtsRef, fetching, timers >>
    /\ UNCHANGED << inputVars, ecoPageVars, offPage >>

\* handleReset with the form left as it was typed
handleReset_keepsForm ==
    /\ resultsRendered \/ errorRendered
    /\ timers' = IF timerRef # 0 THEN cleared(timers, timerRef) ELSE timers
    /\ phase' = "idle"
    /\ shown' = JsonNull
    /\ error' = null
    /\ visibleThoughts' = << >>
    /\ activeTab' = "software"
    /\ UNCHANGED << inputVars, thoughtIndexRef, timerRef, allThoughtsRef, fetching >>
    /\ UNCHANGED << ecoPageVars, offPage >>

\* handleReset, from "New search" on the results screen or "Try again" on
\* the error screen
handleReset ==
    /\ resultsRendered \/ errorRendered
    /\ timers' = IF timerRef # 0 THEN cleared(timers, timerRef) ELSE timers
    /\ phase' = "idle"
    /\ deviceName' = ""
    /\ conditions' = << >>
    /\ mode' = "Standard"
    /\ deviceType' = "Smartphone"
    /\ applianceType' = null
    /\ ramGB' = 0
    /\ storageGB' = 0
    /\ shown' = JsonNull
    /\ error' = null
    /\ visibleThoughts' = << >>
    /\ activeTab' = "software"
    /\ UNCHANGED << thoughtIndexRef, timerRef, allThoughtsRef, fetching >>
    /\ UNCHANGED << ecoPageVars, offPage >>

\* ------------------------------------------------------------------------
\* The page (Home), Eco-Exchange side
\* ------------------------------------------------------------------------

\* An EcoValuation with its summary
SampleValuation ==
    [ valuationSummary |->
          [ deviceName |-> "iPhone 13", conditionGrade |-> "B",
            estimatedResaleUsd |-> 320, estimatedResaleInr |-> 26500,
            estimatedScrapCashUsd |-> 40, estimatedScrapCashInr |-> 3300,
            ecoMessage |-> "Trading in saves 70 kg of CO2." ],
      tradeInOffers |-> << >> ]

\* What /api/eco-valuation answers with status 200: the JSON of the backend
\* as it came, a valuation with or without a summary, or null
ValuationReplies ==
    { SampleValuation, [ valuationSummary |-> JsonNull, tradeInOffers |-> << >> ],
      JsonNull }

\* The block of the valuation, with "New valuation", is rendered
valuationRendered ==
    /\ formRendered
    /\ ecoResult # JsonNull
    /\ ecoResult.valuationSummary # JsonNull

\* onChange of the device field of the Eco-Exchange
setEcoDevice(name) ==
    /\ formRendered
    /\ ecoDevice' = name
    /\ UNCHANGED << ecoConditions, ecoDeviceType, ecoApplianceType, ecoNotes,
                    ecoLoading, ecoResult, ecoError, ecoFetching >>
    /\ UNCHANGED << pageVars, offPage >>

\* onChange of the notes
setEcoNotes(notes) ==
    /\ formRendered
    /\ ecoNotes' = notes
    /\ UNCHANGED << ecoDevice, ecoConditions, ecoDeviceType, ecoApplianceType,
                    ecoLoading, ecoResult, ecoError, ecoFetching >>
    /\ UNCHANGED << pageVars, offPage >>

\* handleEcoDeviceTypeChange(dt)
handleEcoDeviceTypeChange(dt) ==
    /\ formRendered
    /\ ecoDeviceType' = dt
    /\ ecoConditions' = << >>
    /\ ecoApplianceType' = IF dt # "Other" THEN null ELSE ecoApplianceType
    /\ UNCHANGED << ecoDevice, ecoNotes, ecoLoading, ecoResult, ecoError, ecoFetching >>
    /\ UNCHANGED << pageVars, offPage >>

\* handleEcoApplianceTypeChange(at); the buttons are there for "Other" only
handleEcoApplianceTypeChange(at) ==
    /\ formRendered
    /\ ecoDeviceType = "Other"
    /\ ecoApplianceType' = at
    /\ ecoConditions' = << >>
    /\ UNCHANGED << ecoDevice, ecoDeviceType, ecoNotes,
                    ecoLoading, ecoResult, ecoError, ecoFetching >>
    /\ UNCHANGED << pageVars, offPage >>

\* toggleEcoCondition(c), from one of the buttons of currentEcoConditions
toggleEcoCondition(c) ==
    /\ formRendered
    /\ c \in elements(getConditionsForDevice(ecoDeviceType, ecoApplianceType))
    /\ ecoConditions' = toggled(ecoConditions, c)
    /\ UNCHANGED << ecoDevice, ecoDeviceType, ecoApplianceType, ecoNotes,
                    ecoLoading, ecoResult, ecoError, ecoFetching >>
    /\ UNCHANGED << pageVars, offPage >>

\* handleEcoSubmit up to await fetch("/api/eco-valuation", ...)
handleEcoSubmit ==
    IF trim(ecoDevice) = ""
    THEN UNCHANGED vars
    ELSE /\ Len(ecoFetching) < MaxPending
         /\ ecoLoading' = TRUE
         /\ ecoError' = null
         /\ ecoResult' = JsonNull
         /\ ecoFetching' = Append(ecoFetching, [ stage |-> "fetch" ])
         /\ UNCHANGED << ecoDevice, ecoConditions, ecoDeviceType,
                         ecoApplianceType, ecoNotes >>
         /\ UNCHANGED << pageVars, offPage >>

\* The button "Get Trade-In Valuation", disabled while the name is blank
\* or a valuation is loading
EcoSubmitClick ==
    /\ formRendered
    /\ trim(ecoDevice) # ""
    /\ ~ecoLoading
    /\ handleEcoSubmit

\* Enter in the device field, which is not disabled while loading
EcoSubmitEnter == formRendered /\ handleEcoSubmit

\* catch (err): setEcoError(err.message); finally: setEcoLoading(false)
valuationFailed(i, message) ==
    /\ ecoError' = message
    /\ ecoLoading' = FALSE
    /\ ecoFetching' = dropAt(ecoFetching, i)
    /\ UNCHANGED << ecoDevice, ecoConditions, ecoDeviceType, ecoApplianceType,
                    ecoNotes, ecoResult >>
    /\ UNCHANGED << pageVars, offPage >>

\* fetch rejects: no connection
ValuationFetchFails(i) ==
    /\ i \in 1..Len(ecoFetching)
    /\ ecoFetching[i].stage = "fetch"
    /\ valuationFailed(i, "Failed to fetch")

\* fetch resolves: if (!res.ok) throw ...; else await res.json()
ValuationResponds(i, ok) ==
    /\ i \in 1..Len(ecoFetching)
    /\ ecoFetching[i].stage = "fetch"
    /\ IF ok
       THEN /\ ecoFetching' = [ ecoFetching EXCEPT ![i].stage = "json" ]
            /\ UNCHANGED << ecoDevice, ecoConditions, ecoDeviceType, ecoApplianceType,
                            ecoNotes, ecoLoading, ecoResult, ecoError >>
            /\ UNCHANGED << pageVars, offPage >>
       ELSE valuationFailed(i, "Valuation failed. Please try again.")

\* res.json() rejects: the body is no JSON
ValuationJsonFails(i) ==
    /\ i \in 1..Len(ecoFetching)
    /\ ecoFetching[i].stage = "json"
    /\ valuationFailed(i, "Unexpected end of JSON input")

\* res.json() resolves: setEcoResult(data); finally: setEcoLoading(false)
ValuationJson(i, data) ==
    /\ i \in 1..Len(ecoFetching)
    /\ ecoFetching[i].stage = "json"
    /\ ecoResult' = data
    /\ ecoLoading' = FALSE
    /\ ecoFetching' = dropAt(ecoFetching, i)
    /\ UNCHANGED << ecoDevice, ecoConditions, ecoDeviceType, ecoApplianceType,
                    ecoNotes, ecoError >>
    /\ UNCHANGED << pageVars, offPage >>

\* handleEcoReset, from "New valuation"
handleEcoReset ==
    /\ valuationRendered
    /\ ecoDevice' = ""
    /\ ecoConditions' = << >>
    /\ ecoDeviceType' = "Smartphone"
    /\ ecoApplianceType' = null
    /\ ecoNotes' = ""
    /\ ecoResult' = JsonNull
    /\ ecoError' = null
    /\ UNCHANGED << ecoLoading, ecoFetching >>
    /\ UNCHANGED << pageVars, offPage >>

\* ------------------------------------------------------------------------
\* The two forms: device types, appliance types, defect toggles and both
\* resets, with the shortest exchange that leads to each reset.
\* ------------------------------------------------------------------------

\* What is clicked and typed in the forms
FormDeviceTypes == elements(DEVICE_TYPES)

FormApplianceTypes == { "Fridge", "AC" }

FormLabels == { "Screen Broken", "Bad Battery", "Not Cooling", "Compressor Dead" }

FormNames == { "Galaxy S9" }

FormNext ==
    \/ \E name \in FormNames : setDeviceName(name)
    \/ \E dt \in FormDeviceTypes : handleDeviceTypeChange(dt)
    \/ \E at \in FormApplianceTypes : handleApplianceTypeChange(at)
    \/ \E c \in FormLabels : toggleCondition(c)
    \/ SubmitClick
    \/ \E i \in 1..MaxPending : ResearchResponds(i, FALSE)
    \/ handleReset
    \/ \E name \in FormNames : setEcoDevice(name)
    \/ \E dt \in FormDeviceTypes : handleEcoDeviceTypeChange(dt)
    \/ \E at \in FormApplianceTypes : handleEcoApplianceTypeChange(at)
    \/ \E c \in FormLabels : toggleEcoCondition(c)
    \/ EcoSubmitClick
    \/ \E i \in 1..MaxPending : ValuationResponds(i, TRUE)
    \/ \E i \in 1..MaxPending : ValuationJson(i, SampleValuation)
    \/ handleEcoReset

FormSpec == Init /\ [][FormNext]_vars

\* ------------------------------------------------------------------------
\* A research run on the page: the form, the request, the animation of the
\* thoughts, the results or the error, the reset; a valuation beside it.
\* ------------------------------------------------------------------------

\* What is clicked and typed during the runs
PageNames == { "  ", "Galaxy S9" }

PageTabs == { "software", "creative", "hardware" }

PageNext ==
    \/ \E name \in PageNames : setDeviceName(name)
    \/ handleDeviceTypeChange("Other")
    \/ handleApplianceTypeChange("TV")
    \/ toggleCondition("Screen Cracked")
    \/ setRamGB(Len(RAM_OPTIONS))
    \/ setStorageGB(Len(STORAGE_OPTIONS))
    \/ setMode
    \/ SubmitClick
    \/ SubmitEnter
    \/ \E i \in 1..MaxPending : ResearchFetchFails(i)
    \/ \E i \in 1..MaxPending, ok \in BOOLEAN : ResearchResponds(i, ok)
    \/ \E i \in 1..MaxPending : ResearchJsonFails(i)
    \/ \E i \in 1..MaxPending, data \in ResearchReplies : ResearchJson(i, data)
    \/ \E t \in timers : Tick(t)
    \/ \E tab \in PageTabs : setActiveTab(tab)
    \/ handleReset
    \/ setEcoDevice("iPhone 13")
    \/ EcoSubmitClick
    \/ \E i \in 1..MaxPending : ValuationResponds(i, TRUE)
    \/ \E i \in 1..MaxPending : ValuationJson(i, SampleValuation)

PageSpec == Init /\ [][PageNext]_vars

\* ------------------------------------------------------------------------
\* The Eco-Exchange on the idle screen: the form, submits by the button and
\* by Enter, and the replies in any order.
\* ------------------------------------------------------------------------

\* What is typed into the Eco-Exchange form
EcoPageNames == { "  ", "iPhone 13" }

EcoPageNext ==
    \/ \E name \in EcoPageNames : setEcoDevice(name)
    \/ setEcoNotes("Slight burn-in on the screen.")
    \/ handleEcoDeviceTypeChange("Laptop")
    \/ toggleEcoCondition("Bad Battery")
    \/ EcoSubmitClick
    \/ EcoSubmitEnter
    \/ \E i \in 1..MaxPending : ValuationFetchFails(i)
    \/ \E i \in 1..MaxPending, ok \in BOOLEAN : ValuationResponds(i, ok)
    \/ \E i \in 1..MaxPending : ValuationJsonFails(i)
    \/ \E i \in 1..MaxPending, data \in ValuationReplies : ValuationJson(i, data)
    \/ handleEcoReset

EcoPageSpec == Init /\ [][EcoPageNext]_vars

\* ------------------------------------------------------------------------
\* Properties
\* ------------------------------------------------------------------------

\* A string made of blanks only (the empty string included)
OnlyBlanks(str) == \A i \in 1..Len(str) : SubSeq(str, i, i) = " "

\* The request in progress carries a device name that is not blank
NamedRequest ==
    /\ request.json = "object"
    /\ "deviceName" \in DOMAIN request.value
    /\ ~OnlyBlanks(request.value.deviceName)

\* The request in progress parsed, and its device name is missing or blank
BlankRequest ==
    /\ request.json = "object"
    /\ \/ "deviceName" \notin DOMAIN request.value
       \/ OnlyBlanks(request.value.deviceName)

RecTypes == { "Software", "Hardware Harvest", "Creative Build" }
RecDifficulties == { "Beginner", "Intermediate", "Expert" }

\* C1: a request with a device name that the scraper does not serve (health
\* check failed, backend not configured, scrape failed, any other error) is
\* answered with status 200 by the mock pipeline, never with an error status.
C1_FailureFallsBackToMock ==
    (pc = "done" /\ NamedRequest /\ servedBy # "scraper")
        => (response.status = 200 /\ servedBy = "mock")

\* C2: a request whose device name is missing, empty or blank is answered
\* with 400, and for it no health check is sent, no scrape call is sent and
\* no step of the mock pipeline runs.
C2_BlankNameRejected ==
    BlankRequest =>
        /\ pc = "done"
        /\ response.status = 400
        /\ healthCalls = 0
        /\ scrapeCalls = 0
        /\ pipeline = {}
        /\ healthTimer = "unset"

C2_Witness ==
    /\ pc = "done"
    /\ request.json = "object"
    /\ "deviceName" \in DOMAIN request.value
    /\ request.value.deviceName = "  "
    /\ response.status = 400

\* C3: once the 2 s of the health check (the 90 s of the scrape call) have
\* passed without the backend's complete answer, the proxy is no longer
\* waiting for that call, and the response it gives is not the scraper's.
C3_TimersBoundTheCalls ==
    /\ healthElapsed => pc \notin { "health_fetch", "health_json" }
    /\ scrapeElapsed => pc \notin { "scrape_fetch", "scrape_json" }
    /\ servedBy = "scraper" => (~healthElapsed /\ ~scrapeElapsed)

\* C4: POST /scrape is sent at most once and GET /health at most once per
\* request, and POST /scrape is sent only after /health answered ok with a
\* body whose groq_configured is true.
C4_ScrapeOnlyAfterHealthy ==
    /\ healthCalls <= 1
    /\ scrapeCalls <= 1
    /\ scrapeCalls > 0 =>
          /\ healthCalls = 1
          /\ healthRes = "ok"
          /\ health.json = "object"
          /\ "groq_configured" \in DOMAIN health.value
          /\ health.value.groq_configured = TRUE
    /\ (pc = "done" /\ (healthRes # "ok" \/ health.json # "object"))
          => scrapeCalls = 0

C4_Witness ==
    /\ pc = "scrape_fetch"
    /\ scrapeCalls = 1
    /\ healthRes = "ok"
    /\ health = JsonObject([ status |-> "ok", groq_configured |-> TRUE ])

\* C5: every response with status 200 carries at least one recommendation.
C5_AtLeastOneRecommendation ==
    response.status = 200 => Len(response.body.recommendations) >= 1

\* C6: every response with status 200 carries at most 20 recommendations.
C6_AtMostTwentyRecommendations ==
    response.status = 200 => Len(response.body.recommendations) <= 20

\* C7: every recommendation of a response with status 200 has a
\* compatibilityScore that is a whole number between 0 and 100.
C7_ScoreIsIntegerInRange ==
    response.status = 200 =>
        \A i \in 1..Len(response.body.recommendations) :
            LET score == response.body.recommendations[i].compatibilityScore
            IN  /\ score % Scale = 0
                /\ score >= 0
                /\ score <= 100 * Scale

\* C8: every recommendation of a response with status 200 has a type and a
\* difficulty of the fixed enumerations; the scraper's entries keep a valid
\* type or difficulty and get Software or Intermediate for any other or
\* missing one.
C8_EnumerationsRestricted ==
    response.status = 200 =>
        /\ \A i \in 1..Len(response.body.recommendations) :
              /\ response.body.recommendations[i].type \in RecTypes
              /\ response.body.recommendations[i].difficulty \in RecDifficulties
        /\ servedBy = "scraper" =>
              LET sent == IF "recommendations" \in DOMAIN scrapeData.value
                          THEN scrapeData.value.recommendations ELSE << >>
                  out == response.body.recommendations
              IN  /\ Len(out) = Len(sent)
                  /\ \A i \in 1..Len(sent) :
                        /\ out[i].type =
                              IF "type" \in DOMAIN sent[i] /\ sent[i].type \in RecTypes
                              THEN sent[i].type ELSE "Software"
                        /\ out[i].difficulty =
                              IF "difficulty" \in DOMAIN sent[i]
                                 /\ sent[i].difficulty \in RecDifficulties
                              THEN sent[i].difficulty ELSE "Intermediate"

C8_Witness ==
    /\ servedBy = "scraper"
    /\ response.status = 200
    /\ "recommendations" \in DOMAIN scrapeData.value
    /\ \E i \in 1..Len(scrapeData.value.recommendations) :
          /\ "type" \in DOMAIN scrapeData.value.recommendations[i]
          /\ scrapeData.value.recommendations[i].type = "Gadget"
          /\ scrapeData.value.recommendations[i].difficulty = "Hard"
          /\ response.body.recommendations[i].type = "Software"
          /\ response.body.recommendations[i].difficulty = "Intermediate"

\* C9: the valuation proxy answers 200 only when the backend answered ok, and
\* then with the backend's body; it relays a status that is not ok; it
\* answers 502 when the backend was not reached or its answer did not parse.
C9_ValuationNeverFabricated ==
    ecoPc = "done" =>
        /\ ecoResponse.status = 200 =>
              /\ ecoRes \in 200..299
              /\ ecoBackend.json \in { "object", "null" }
              /\ ecoResponse.body = ecoBackend
        /\ (ecoRes # 0 /\ ecoRes \notin 200..299 /\ ecoBackend.json = "text") =>
              ecoResponse.status = ecoRes
        /\ (Len(ecoSent) = 1 /\ ecoRes = 0) => ecoResponse.status = 502
        /\ (ecoRes \in 200..299 /\ ecoBackend.json = "invalid") =>
              ecoResponse.status = 502

C9_Witness ==
    /\ ecoPc = "done"
    /\ ecoRes = 200
    /\ ecoBackend.json = "invalid"
    /\ ecoResponse.status = 502

\* C10: a valuation request whose device name is empty or missing is answered
\* with a client error and nothing is sent to the backend for it.
C10_EmptyNameNotForwarded ==
    (/\ ecoRequest.json = "object"
     /\ \/ "deviceName" \notin DOMAIN ecoRequest.value
        \/ ecoRequest.value.deviceName = "")
        => /\ Len(ecoSent) = 0
           /\ ecoPc = "done" => ecoResponse.status \in 400..499

\* ------------------------------------------------------------------------
\* The phases of the mock pipeline
\* ------------------------------------------------------------------------

Formulated == runStage \in { "formulated", "searched", "synthesized" }
Searched == runStage \in { "searched", "synthesized" }
Synthesized == runStage = "synthesized"

Reported(label) ==
    \E i \in 1..Len(runInput.conditions) : runInput.conditions[i] = label

Punctuation == { ".", ",", "!", "?", ":", ";", "-", "'", "(", ")" }

\* s without its punctuation marks
RECURSIVE dropPunctuation(_)
dropPunctuation(s) ==
    IF Len(s) = 0 THEN ""
    ELSE IF Len(s) = 1 THEN (IF s \in Punctuation THEN "" ELSE s)
    ELSE LET half == Len(s) \div 2
         IN  dropPunctuation(SubSeq(s, 1, half))
             \o dropPunctuation(SubSeq(s, half + 1, Len(s)))

\* Two titles that differ by letter case and punctuation only have the
\* same folded title.
foldTitle(t) == dropPunctuation(toLowerCase(t))

C12_SortedByScore ==
    Synthesized =>
        \A i, j \in 1..Len(runSynthesized.recommendations) :
            i < j => runSynthesized.recommendations[i].compatibilityScore
                     >= runSynthesized.recommendations[j].compatibilityScore

\* A Creative Build, appended after the first sort, stands ahead of an
\* entry of the first sort that scores less.
C12_Witness ==
    /\ Synthesized
    /\ \E i \in 1..(Len(runSynthesized.recommendations) - 1) :
         /\ runSynthesized.recommendations[i].type = "Creative Build"
         /\ runSynthesized.recommendations[i + 1].type # "Creative Build"
         /\ runSynthesized.recommendations[i].compatibilityScore
            > runSynthesized.recommendations[i + 1].compatibilityScore

ScreenNeeding ==
    { "Portable Monitor from Device Screen", "Digital Photo Frame / Art Display",
      "AMOLED Display Panel Reuse", "Home Assistant Wall Panel",
      "Retro Gaming Console" }

\* C13: when Screen Broken is among the reported defects, the
\* recommendations hold a Software entry that scores 90 or more, and every
\* entry that needs a working screen scores 50 or less and strictly less
\* than every Software entry returned.
C13_BrokenScreenRanksHeadlessFirst ==
    Synthesized /\ Reported("Screen Broken") =>
        LET recs == runSynthesized.recommendations
        IN  /\ \E i \in 1..Len(recs) :
                 /\ recs[i].type = "Software"
                 /\ recs[i].compatibilityScore >= 90 * Scale
            /\ \A i \in 1..Len(recs) :
                 recs[i].title \in ScreenNeeding =>
                    /\ recs[i].compatibilityScore <= 50 * Scale
                    /\ \A j \in 1..Len(recs) :
                         recs[j].type = "Software" =>
                            recs[i].compatibilityScore < recs[j].compatibilityScore

\* Screen Broken is reported together with other defects in Teardown/Harvest
\* mode, and the three entries that need the screen are all returned.
C13_Witness ==
    /\ Synthesized
    /\ Reported("Screen Broken")
    /\ Reported("Bad Battery")
    /\ \A t \in { "Portable Monitor from Device Screen",
                  "Digital Photo Frame / Art Display",
                  "AMOLED Display Panel Reuse" } :
         \E i \in 1..Len(runSynthesized.recommendations) :
            runSynthesized.recommendations[i].title = t

Mentions(s, words) == strIncludes(toLowerCase(s), words)

\* C14: when Screen Broken is among the reported defects and the device
\* name does not mention a smart mirror, formulateQueries returns at least
\* one headless query and no query that mentions a smart mirror.
C14_BrokenScreenQueriesHeadless ==
    Formulated /\ Reported("Screen Broken")
    /\ ~ Mentions(runInput.deviceName, "smart mirror") =>
        /\ \E i \in 1..Len(runFormulated.queries) :
             Mentions(runFormulated.queries[i], "headless")
        /\ \A i \in 1..Len(runFormulated.queries) :
             ~ Mentions(runFormulated.queries[i], "smart mirror")

\* Screen Broken is reported after another defect for a Galaxy S9: the
\* thought log speaks of smart mirrors, the queries do not.
C14_Witness ==
    /\ Formulated
    /\ runInput.deviceName = "Galaxy S9"
    /\ Len(runInput.conditions) > 1
    /\ runInput.conditions[Len(runInput.conditions)] # "Screen Broken"
    /\ Reported("Screen Broken")
    /\ \E i \in 1..Len(runFormulated.thoughts) :
         Mentions(runFormulated.thoughts[i], "smart mirror")
    /\ \E i \in 1..Len(runFormulated.queries) :
         runFormulated.queries[i] = "Galaxy S9 headless server raspberry pi alternative"

\* C15: the recommendations hold a Hardware Harvest entry when the mode is
\* Teardown/Harvest, whatever the defects, and none when it is Standard.
C15_HarvestOnlyInTeardown ==
    Synthesized =>
        LET recs == runSynthesized.recommendations
            harvest == \E i \in 1..Len(recs) : recs[i].type = "Hardware Harvest"
        IN  /\ runInput.mode = "Teardown/Harvest" => harvest
            /\ runInput.mode = "Standard" => ~ harvest

\* Bad Battery and No Charging Port in Teardown/Harvest mode: the battery
\* is returned as a part to harvest.
C15_Witness ==
    /\ Synthesized
    /\ runInput.mode = "Teardown/Harvest"
    /\ runInput.conditions = << "Bad Battery", "No Charging Port" >>
    /\ \E i \in 1..Len(runSynthesized.recommendations) :
         /\ runSynthesized.recommendations[i].type = "Hardware Harvest"
         /\ runSynthesized.recommendations[i].title = "Li-Ion Battery for Projects"

\* C16: formulateQueries returns at least one query, for every device
\* name, every list of defect labels and every mode.
C16_AtLeastOneQuery ==
    Formulated => Len(runFormulated.queries) >= 1

\* A label outside the vocabulary of the smartphone, for a device without
\* a name, in Standard mode.
C16_Witness ==
    /\ Formulated
    /\ runInput = [ deviceName |-> "", conditions |-> << "Compressor Dead" >>,
                    mode |-> "Standard" ]
    /\ Len(runFormulated.queries) = 2

Templated ==
    { "Screen Broken", "Bad Battery", "Touch Broken", "Camera Dead",
      "Speaker Broken", "No Charging Port" }

\* C17: formulateQueries emits the two generic queries exactly when none of
\* the reported defects has a template of its own, in either mode; with a
\* templated defect it emits neither.
C17_GenericOnlyWithoutTemplate ==
    Formulated =>
        LET queries == runFormulated.queries
            templated == \E label \in Templated : Reported(label)
            emitted(q) == \E i \in 1..Len(queries) : queries[i] = q
            first == runInput.deviceName \o " repurpose upcycle project ideas 2024"
            second == runInput.deviceName \o " second life DIY project github"
        IN  IF templated
            THEN ~ emitted(first) /\ ~ emitted(second)
            ELSE emitted(first) /\ emitted(second)

\* Teardown/Harvest mode, and the only defect reported has no template: the
\* generic queries stand ahead of the harvesting ones.
C17_Witness ==
    /\ Formulated
    /\ runInput.mode = "Teardown/Harvest"
    /\ runInput.conditions = << "Compressor Dead" >>
    /\ Len(runFormulated.queries) > 3
    /\ runFormulated.queries[1]
       = runInput.deviceName \o " repurpose upcycle project ideas 2024"

HarvestTemplates(device) ==
    << device \o " teardown parts list pinout",
       device \o " ifixit teardown components reuse",
       "smartphone component harvesting robotics arduino" >>

\* C18: in Teardown/Harvest mode the last three queries are the three
\* hardware-harvesting queries and none of them stands earlier in the
\* list; in Standard mode none of the three is in the list.
C18_HarvestQueriesLast ==
    Formulated =>
        LET queries == runFormulated.queries
            n == Len(queries)
            harvesting == HarvestTemplates(runInput.deviceName)
            isHarvesting(q) == \E k \in 1..3 : harvesting[k] = q
        IN  IF runInput.mode = "Teardown/Harvest"
            THEN /\ n >= 3
                 /\ SubSeq(queries, n - 2, n) = harvesting
                 /\ \A i \in 1..(n - 3) : ~ isHarvesting(queries[i])
            ELSE \A i \in 1..n : ~ isHarvesting(queries[i])

\* Teardown/Harvest mode with two templated defects: their queries come
\* first, the harvesting queries after them.
C18_Witness ==
    /\ Formulated
    /\ runInput.mode = "Teardown/Harvest"
    /\ runInput.conditions = << "Bad Battery", "No Charging Port" >>
    /\ Len(runFormulated.queries) = 6
    /\ runFormulated.queries[6] = "smartphone component harvesting robotics arduino"

\* ------------------------------------------------------------------------
\* Requests served side by side
\* ------------------------------------------------------------------------

ByMock(s) == inFlight[s].stage = "served" /\ inFlight[s].response.status = 200

\* What a recommendation says, its id apart
Shown(rec) ==
    [ title |-> rec.title, type |-> rec.type, difficulty |-> rec.difficulty,
      compatibilityScore |-> rec.compatibilityScore ]

ShownList(recs) == [ i \in 1..Len(recs) |-> Shown(recs[i]) ]

\* C19: two requests with the same device name, defects and mode that the
\* mock pipeline served have the same search queries, the same device
\* summary and the same recommendations in the same order, whatever was
\* served before or is in progress beside them; and the mock lookup table
\* is as it was when the module was loaded.
C19_SameInputsSameAnswer ==
    /\ mockDb = MOCK_RESULTS_DB
    /\ \A s, t \in Slots :
         ByMock(s) /\ ByMock(t) /\ inFlight[s].body = inFlight[t].body =>
            LET a == inFlight[s].response.body
                b == inFlight[t].response.body
            IN  /\ a.searchQueries = b.searchQueries
                /\ a.deviceSummary = b.deviceSummary
                /\ ShownList(a.recommendations) = ShownList(b.recommendations)

\* Two requests for the same device, served at different times with
\* different draws of Math.random(): the ids and the timestamps differ.
C19_Witness ==
    /\ ByMock("first")
    /\ ByMock("second")
    /\ inFlight["first"].body = inFlight["second"].body
    /\ inFlight["first"].body.conditions = << "Screen Broken" >>
    /\ inFlight["first"].response.body.recommendations[1].id
       # inFlight["second"].response.body.recommendations[1].id
    /\ inFlight["first"].response.body.thoughts[1].timestamp
       # inFlight["second"].response.body.thoughts[1].timestamp

\* ------------------------------------------------------------------------
\* Error responses
\* ------------------------------------------------------------------------

\* The messages written in the handlers themselves
FixedMessages ==
    { "Device name is required.", "Internal server error.",
      "Eco valuation failed", "Failed to reach valuation service" }

\* C20: an error response of /api/research or /api/eco-valuation carries
\* one of the fixed messages of the route: no text the backend produced is
\* in its body.
C20_ErrorsAreGeneric ==
    /\ response.status >= 400 => response.body.error \in FixedMessages
    /\ ecoResponse.status >= 400 => ecoResponse.body.error \in FixedMessages


\* ------------------------------------------------------------------------
\* Properties of the badge (src/utils/sustainability.js)
\* ------------------------------------------------------------------------

\* The badge table of the documentation: the label for a score
DocumentedLabel(score) ==
    IF score \in 0..49 THEN "Beginner"
    ELSE IF score \in 50..99 THEN "Sustainability Starter"
    ELSE IF score \in 100..199 THEN "Green Hero"
    ELSE IF score >= 200 THEN "Eco Champion"
    ELSE "none"

\* The order of the badges, lowest first
BadgeRank(b) ==
    CASE b.label = "Beginner" -> 0
      [] b.label = "Sustainability Starter" -> 1
      [] b.label = "Green Hero" -> 2
      [] b.label = "Eco Champion" -> 3
      [] OTHER -> 0 - 1

\* C21: getBadge answers every score with the badge of the documented table
\* (0-49 Beginner, 50-99 Sustainability Starter, 100-199 Green Hero, 200 and
\* above Eco Champion), a larger score never gets a lower badge, and with 10
\* points per revived device the badge never goes down as devices are revived.
C21_BadgeFollowsTable ==
    [][ /\ ratedBadge'.label = DocumentedLabel(ratedScore')
        /\ badge'.label = DocumentedLabel(10 * devicesRevived')
        /\ savedScore' = 10 * devicesRevived'
        /\ (ratedScore' >= ratedScore
               => BadgeRank(ratedBadge') >= BadgeRank(ratedBadge))
        /\ (ratedScore' <= ratedScore
               => BadgeRank(ratedBadge') <= BadgeRank(ratedBadge))
        /\ BadgeRank(badge') >= BadgeRank(badge) ]_vars

\* The user has reached the top badge by reviving devices, and a score just
\* under a threshold has been rated
C21_Witness ==
    /\ devicesRevived >= 20
    /\ badge.label = "Eco Champion"
    /\ ratedScore = 199
    /\ ratedBadge.label = "Green Hero"

\* ------------------------------------------------------------------------
\* Properties of normalizeScraperResponse (src/app/api/research/route.ts)
\* ------------------------------------------------------------------------

\* The recommendations of the backend behind the response of the scraper path
BackendRecs == nullish(scrapeData.value, "recommendations", << >>)

\* C30: normalizeScraperResponse keeps the number and the order of the
\* recommendations of the backend (the i-th entry of the response carries
\* the id and the title of the i-th entry of the backend wherever the backend
\* gave them), and applying it to its own output returns that output,
\* whatever uid() would draw the second time.
C30_NormalizeIsIdempotent ==
    (servedBy = "scraper" /\ response.status = 200) =>
        /\ Len(response.body.recommendations) = Len(BackendRecs)
        /\ \A i \in 1..Len(BackendRecs) :
              /\ orElse(BackendRecs[i], "id", "") # ""
                    => response.body.recommendations[i].id = BackendRecs[i].id
              /\ orElse(BackendRecs[i], "title", "") # ""
                    => response.body.recommendations[i].title = BackendRecs[i].title
        /\ \A seed \in Seeds :
              normalizeScraperResponse(response.body, seed) = response.body

\* A response of the scraper path for two different entries of the backend,
\* the first with an id of its own and the second without
C30_Witness ==
    /\ servedBy = "scraper"
    /\ response.status = 200
    /\ Len(BackendRecs) = 2
    /\ orElse(BackendRecs[1], "id", "") = "yt-1"
    /\ orElse(BackendRecs[2], "id", "") = ""
    /\ response.body.recommendations[1].id = "yt-1"
    /\ response.body.recommendations[2].id # ""

\* ------------------------------------------------------------------------
\* Properties of the scores of the mock pipeline under a reported defect
\* ------------------------------------------------------------------------

\* The recommendations built on a component, by the defect that breaks it
BuiltOn ==
    [ x \in { "Screen Broken", "Bad Battery", "Camera Dead", "Speaker Broken" } |->
        CASE x = "Screen Broken" ->
                 { "AMOLED Display Panel Reuse", "Digital Photo Frame / Art Display",
                   "Portable Monitor from Device Screen" }
          [] x = "Bad Battery" -> { "Li-Ion Battery for Projects" }
          [] x = "Camera Dead" ->
                 { "Camera Module for Raspberry Pi", "IP Security Camera" }
          [] x = "Speaker Broken" ->
                 { "Speaker & Microphone Modules", "Custom Bluetooth Speaker Build" } ]

\* The list of defects of a request served by the mock pipeline
ReportedIn(s) == nullish(inFlight[s].body, "conditions", << >>)

\* The requests of s and t are the same but for defect x, which s alone reports
DiffersByDefect(s, t, x) ==
    /\ ByMock(s) /\ ByMock(t)
    /\ ReportedIn(s) = << x >>
    /\ ReportedIn(t) = << >>
    /\ inFlight[s].body.deviceName = inFlight[t].body.deviceName
    /\ nullish(inFlight[s].body, "mode", "Standard")
          = nullish(inFlight[t].body, "mode", "Standard")

\* Every recommendation of the list whose title is in the set scores lower
\* in the list with the defect, if it is there at all
LoweredOrOmitted(titles, with, free) ==
    \A i \in 1..Len(free), j \in 1..Len(with) :
        (free[i].title \in titles /\ with[j].title = free[i].title)
            => with[j].compatibilityScore < free[i].compatibilityScore

\* C24: of two requests served by the mock pipeline that differ by one
\* reported defect only (Screen Broken, Bad Battery, Camera Dead or Speaker
\* Broken), every recommendation built on the broken component is left out
\* of the answer to the request with the defect or scores strictly lower
\* there than in the answer to the request without it.
C24_DefectLowersDependants ==
    \A s, t \in Slots : \A x \in DOMAIN BuiltOn :
        DiffersByDefect(s, t, x) =>
            LoweredOrOmitted(BuiltOn[x],
                             inFlight[s].response.body.recommendations,
                             inFlight[t].response.body.recommendations)

\* ------------------------------------------------------------------------
\* Properties of the page (src/README.md, Home)
\* ------------------------------------------------------------------------

\* No label twice, and every label one of those offered for the device type
\* and the appliance type
WellFormedSelection(selected, dt, at) ==
    /\ \A i, j \in 1..Len(selected) : selected[i] = selected[j] => i = j
    /\ elements(selected) \subseteq elements(getConditionsForDevice(dt, at))

\* C22: after any device-type changes, appliance-type changes, toggles and
\* resets, conditions holds no label twice and only labels offered for the
\* selected device type and appliance type, the same is true of
\* ecoConditions, and an appliance type is set only while the device type is
\* Other.
C22_SelectionWithinVocabulary ==
    /\ WellFormedSelection(conditions, deviceType, applianceType)
    /\ WellFormedSelection(ecoConditions, ecoDeviceType, ecoApplianceType)
    /\ applianceType # null => deviceType = "Other"
    /\ ecoApplianceType # null => ecoDeviceType = "Other"

\* Two defects of an air conditioner are selected in the research form and a
\* defect of a laptop in the Eco-Exchange form, which was of type Other before
C22_Witness ==
    /\ deviceType = "Other"
    /\ applianceType = "AC"
    /\ conditions = << "Compressor Dead", "Not Cooling" >>
    /\ ecoDeviceType = "Laptop"
    /\ ecoApplianceType = null
    /\ ecoConditions = << "Bad Battery" >>
    /\ ecoResult # JsonNull

\* a is the beginning of b
IsPrefix(a, b) == Len(a) <= Len(b) /\ a = SubSeq(b, 1, Len(a))

\* The thought log while an animation runs and once the results are shown
C23_State ==
    /\ \A t \in timers :
          /\ IsPrefix(visibleThoughts, t.data.thoughts)
          /\ shown = JsonNull
    /\ phase = "complete" =>
          /\ shown # JsonNull
          /\ visibleThoughts = shown.thoughts
          /\ timers = { }

\* C23: after a successful fetch the visible thoughts are at every moment a
\* prefix of the thoughts of the response, one more per tick; the results
\* are revealed (response set, phase complete) only when every entry is
\* visible, at the first tick if there is none, the timer is stopped by then
\* so that no tick follows, and the results once revealed are not set again
\* before a reset.
C23_ThoughtsRevealedInOrder ==
    [][ /\ C23_State'
        /\ (\E t \in timers : Len(visibleThoughts') > Len(visibleThoughts))
              => visibleThoughts' = Append(visibleThoughts,
                                           allThoughtsRef[Len(visibleThoughts) + 1])
        /\ (shown = JsonNull /\ shown' # JsonNull)
              => /\ visibleThoughts = shown'.thoughts
                 /\ phase' = "complete"
        /\ shown # JsonNull => shown' \in { shown, JsonNull } ]_vars

\* The results of a reply with three thoughts or more are shown, every
\* thought visible and the timer stopped
C23_Witness ==
    /\ phase = "complete"
    /\ shown # JsonNull
    /\ Len(shown.thoughts) >= 3
    /\ visibleThoughts = shown.thoughts
    /\ timers = { }

\* C27: a research request is sent only from phase idle, so at most one
\* request is in flight and at most one animation timer runs at any time,
\* and no timer is started while another is still running.
C27_OneResearchRunAtATime ==
    [][ /\ Len(fetching') <= 1
        /\ Cardinality(timers') <= 1
        /\ Len(fetching') > Len(fetching) => phase = "idle"
        /\ timers' \ timers # { } => timers = { } ]_vars

\* The timer of a second run is ticking, the timer of the first long stopped
C27_Witness ==
    /\ Cardinality(timers) = 1
    /\ timerRef = 2
    /\ fetching = << >>
    /\ Len(visibleThoughts) >= 1

\* The place of a phase in a run
PhaseRank ==
    [ idle |-> 0, searching |-> 1, analyzing |-> 2, synthesizing |-> 3,
      complete |-> 4, error |-> 4 ]

\* What each resting phase shows
C28_State ==
    /\ phase = "complete" => shown # JsonNull
    /\ phase = "error" => error # null
    /\ phase = "idle" => shown = JsonNull /\ error = null

\* C28: within a run the phase only advances, from idle to searching and on
\* through analyzing and synthesizing to complete, or to error; it returns
\* to idle from complete or error only, by a reset.  In complete the
\* response is set, in error the error message, in idle neither.
C28_PhaseOnlyAdvances ==
    [][ /\ C28_State'
        /\ phase' # phase =>
              \/ PhaseRank[phase'] > PhaseRank[phase]
              \/ phase \in { "complete", "error" } /\ phase' = "idle"
        /\ (phase = "idle" /\ phase' # "idle") => phase' = "searching" ]_vars

\* A run that went through every phase, the last thought just shown
C28_Witness ==
    /\ phase = "synthesizing"
    /\ Len(allThoughtsRef) >= 4
    /\ thoughtIndexRef = Len(allThoughtsRef)
    /\ timers # { }

\* The research side of the page as it is after construction
ResearchSideInitial ==
    /\ phase = "idle"
    /\ deviceName = ""
    /\ conditions = << >>
    /\ mode = "Standard"
    /\ deviceType = "Smartphone"
    /\ applianceType = null
    /\ ramGB = 0
    /\ storageGB = 0
    /\ shown = JsonNull
    /\ error = null
    /\ visibleThoughts = << >>
    /\ activeTab = "software"

\* C29: the step back to idle (handleReset) leaves phase, device name,
\* conditions, mode, device type, appliance type, RAM, storage, response,
\* error, visible thoughts and active tab at their initial values, leaves no
\* timer running, and changes nothing of the Eco-Exchange; while the phase
\* is idle no timer runs and no request is pending, so no thought is added
\* and only a submit moves the phase.
C29_ResetRestoresResearchSide ==
    [][ /\ (phase # "idle" /\ phase' = "idle") =>
              /\ ResearchSideInitial'
              /\ timers' = { }
              /\ ecoPageVars' = ecoPageVars
        /\ phase' = "idle" =>
              /\ timers' = { }
              /\ fetching' = << >>
              /\ visibleThoughts' = << >> ]_vars

\* Back at the idle screen after the results of a run were shown, with a
\* valuation of the Eco-Exchange still on the page
C29_Witness ==
    /\ phase = "idle"
    /\ timerRef # 0
    /\ deviceName = ""
    /\ ecoDevice = "iPhone 13"
    /\ ecoResult = SampleValuation

\* C25: whatever the order of the submits of a valuation (button or Enter)
\* and of the replies, ecoResult and ecoError are never both set.
C25_ResultAndErrorExclusive ==
    ~(ecoResult # JsonNull /\ ecoError # null)

\* C26: at most one valuation request is in flight, and ecoLoading is true
\* exactly while one is.
C26_LoadingWhileInFlight ==
    /\ Len(ecoFetching) <= 1
    /\ ecoLoading <=> ecoFetching # << >>

====
